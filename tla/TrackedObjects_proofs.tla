------------------------ MODULE TrackedObjects_proofs ------------------------
(***************************************************************************)
(* Proofs about TrackedObjects, for any cameras, objects and bounds: every *)
(* event that is open or in process will end, an ended one is final, and   *)
(* the object processor's thread survives, all as long as the camera was   *)
(* not disturbed.                                                          *)
(***************************************************************************)
EXTENDS TrackedObjects, WellFoundedInduction, TLAPS

LEMMA Constants ==
  /\ Changeable \subseteq Cameras /\ Objects \subseteq Nat
  /\ MaxObjects \in [Cameras -> Nat]
  /\ MaxBatches \in Nat /\ MaxMail \in Nat /\ MaxChanges \in Nat
  BY ObjectAssumption

-----------------------------------------------------------------------------
(* Sequences *)

(* Sequences: their elements,                                              *)
LEMMA Elements ==
  ASSUME NEW S, NEW q \in Seq(S)
  PROVE  /\ Len(q) \in Nat /\ (q = <<>> <=> Len(q) = 0)
         /\ \A i \in 1..Len(q) : q[i] \in S
  OBVIOUS

(* what a message at the end changes,                                      *)
LEMMA Appended ==
  ASSUME NEW S, NEW q \in Seq(S), NEW e \in S
  PROVE  /\ Append(q, e) \in Seq(S) /\ Len(Append(q, e)) = Len(q) + 1
         /\ \A i \in 1..Len(q) : Append(q, e)[i] = q[i]
         /\ Append(q, e)[Len(q) + 1] = e
  OBVIOUS

(* and what taking the first one does.                                     *)
LEMMA Shifted ==
  ASSUME NEW S, NEW q \in Seq(S), q # <<>>
  PROVE  /\ Len(q) >= 1 /\ Head(q) = q[1] /\ Head(q) \in S
         /\ Tail(q) \in Seq(S) /\ Len(Tail(q)) = Len(q) - 1
         /\ \A i \in 1..(Len(q) - 1) : Tail(q)[i] = q[i + 1]
  OBVIOUS

LEMMA Single ==
  ASSUME NEW S, NEW e \in S
  PROVE  /\ <<e>> \in Seq(S) /\ Len(<<e>>) = 1 /\ <<e>>[1] = e
  OBVIOUS

LEMMA Posted ==
  ASSUME NEW S, NEW q \in Seq(S), NEW e \in S
  PROVE  /\ q \o <<>> = q /\ q \o <<e>> = Append(q, e)
         /\ <<>> \o <<e>> = <<e>>
  OBVIOUS

LEMMA Empty == \A S : <<>> \in Seq(S)
  OBVIOUS

-----------------------------------------------------------------------------
(* Types *)

LEMMA InitTypes == Init => TypeOK
<1> SUFFICES ASSUME Init PROVE TypeOK
  OBVIOUS
<1>1. /\ changes \in 0..MaxChanges /\ Len(batches) <= MaxBatches
      /\ used \in [Cameras -> Nat] /\ finished \in [Cameras -> [Objects -> Nat]]
  BY Constants DEF Init, All, PerObject
<1>2. /\ configured \in [Cameras -> BOOLEAN] /\ known \in [Cameras -> BOOLEAN]
      /\ enabled \in [Cameras -> BOOLEAN] /\ resized \in [Cameras -> BOOLEAN]
      /\ prev \in [Cameras -> BOOLEAN] /\ cleaning \in [Cameras -> BOOLEAN]
      /\ disturbed \in [Cameras -> BOOLEAN]
  BY DEF Init, All
<1>3. /\ tracker \in [Cameras -> {"on", "off", "stopped"}]
      /\ processor \in {"config", "frame", "finished", "dead"}
      /\ states \subseteq Cameras
  BY DEF Init
<1>4. /\ seen \in [Cameras -> SUBSET Objects] /\ kept \in [Cameras -> SUBSET Objects]
      /\ takenBack \in [Cameras -> SUBSET Objects]
      /\ tracked \in [Cameras -> [Objects -> {"absent", "active", "ended"}]]
      /\ row \in [Cameras -> [Objects -> {"none", "open", "ended"}]]
  BY DEF Init, All, PerObject
<1>5. /\ batches \in Seq(Cameras \X SUBSET Objects)
      /\ updates \in Seq(Updates) /\ orders \in Seq(Updates)
  BY Empty DEF Init
<1>6. mail \in [Cameras -> [Objects -> Seq(Message)]]
  <2>1. <<>> \in Seq(Message)
    BY Empty
  <2> QED
    BY <2>1 DEF Init, All, PerObject
<1>7. inProcess \in [Cameras -> [Objects -> Event \cup {None}]]
  BY DEF Init, All, PerObject
<1> QED
  BY <1>1, <1>2, <1>3, <1>4, <1>5, <1>6, <1>7 DEF TypeOK

LEMMA FrameTypes == ASSUME TypeOK, NEW c \in Cameras, Frame(c) PROVE TypeOK'
<1>1. PICK stay \in SUBSET seen[c], new \in {{}, {used[c] + 1}} :
        /\ new = {} \/ (used[c] < MaxObjects[c] /\ new \subseteq Objects)
        /\ used' = [used EXCEPT ![c] = IF new = {} THEN @ ELSE @ + 1]
        /\ seen' = [seen EXCEPT ![c] = stay \cup new]
        /\ batches' = IF Len(batches) < MaxBatches
                        THEN Append(batches, <<c, stay \cup new>>) ELSE batches
  BY DEF Frame
<1>2. stay \cup new \in SUBSET Objects
  BY <1>1 DEF TypeOK
<1>3. seen' \in [Cameras -> SUBSET Objects] /\ used' \in [Cameras -> Nat]
  BY <1>1, <1>2 DEF TypeOK
<1>4. batches' \in Seq(Cameras \X SUBSET Objects) /\ Len(batches') <= MaxBatches
  <2>1. batches \in Seq(Cameras \X SUBSET Objects) /\ Len(batches) <= MaxBatches
    BY DEF TypeOK
  <2>2. <<c, stay \cup new>> \in Cameras \X SUBSET Objects
    BY <1>2
  <2>3. Len(batches) \in Nat
    BY <2>1, Elements
  <2>4. CASE Len(batches) < MaxBatches
    <3>1. /\ Append(batches, <<c, stay \cup new>>) \in Seq(Cameras \X SUBSET Objects)
          /\ Len(Append(batches, <<c, stay \cup new>>)) = Len(batches) + 1
      BY <2>1, <2>2, Appended
    <3> QED
      BY <1>1, <2>3, <2>4, <3>1, Constants
  <2> QED
    BY <1>1, <2>1, <2>4
<1> QED
  BY <1>3, <1>4 DEF TypeOK, Frame, userVars, objectVars, eventVars

LEMMA DetectTypes ==
  ASSUME TypeOK, NEW c \in Cameras, NoticeEnabled(c) PROVE TypeOK'
<1>1. tracker' \in [Cameras -> {"on", "off", "stopped"}]
  BY DEF TypeOK, NoticeEnabled
<1>2. seen' \in [Cameras -> SUBSET Objects]
  BY DEF TypeOK, NoticeEnabled
<1> QED
  BY <1>1, <1>2 DEF TypeOK, NoticeEnabled, userVars, objectVars, eventVars

LEMMA MaintainTypes == TypeOK /\ MaintainCamera => TypeOK'
<1> SUFFICES ASSUME TypeOK, MaintainCamera PROVE TypeOK'
  OBVIOUS
<1>1. orders \in Seq(Updates) /\ orders # <<>>
  BY DEF TypeOK, MaintainCamera
<1>2. orders' \in Seq(Updates) /\ Head(orders) \in Updates
  BY <1>1, Shifted DEF MaintainCamera
<1>3. Head(orders)[2] \in Cameras
  BY <1>2 DEF Updates
<1>4. /\ known' \in [Cameras -> BOOLEAN]
      /\ tracker' \in [Cameras -> {"on", "off", "stopped"}]
      /\ seen' \in [Cameras -> SUBSET Objects]
  BY <1>3 DEF TypeOK, MaintainCamera
<1> QED
  BY <1>2, <1>4 DEF TypeOK, MaintainCamera, userVars, objectVars, eventVars

(* The configuration after a drain is one.                                 *)
LEMMA DrainedTypes == TypeOK => DrainedConfig \in [Cameras -> BOOLEAN]
  BY DEF TypeOK, DrainedConfig

LEMMA ApplyTypes == TypeOK /\ ApplyUpdates => TypeOK'
<1> SUFFICES ASSUME TypeOK, ApplyUpdates PROVE TypeOK'
  OBVIOUS
<1>0. Touched("add") \subseteq Cameras /\ Touched("remove") \subseteq Cameras
  BY DEF Touched
<1>1. PICK worth \in [Cameras -> SUBSET Objects] :
        /\ kept' = [c \in Cameras |->
                      IF c \in Touched("add") \cup Touched("remove") THEN {}
                      ELSE IF Disabled(c) THEN (kept[c] \ Active(c)) \cup worth[c]
                      ELSE kept[c]]
        /\ takenBack' = [c \in Cameras |-> takenBack[c] \ worth[c]]
        /\ mail' = [c \in Cameras |-> [n \in Objects |->
                      IF Disabled(c) /\ n \in Active(c)
                        THEN Append(mail[c][n],
                               [type |-> "end", kept |-> n \in worth[c], over |-> TRUE])
                        ELSE mail[c][n]]]
  BY DEF ApplyUpdates
<1>2. /\ kept' \in [Cameras -> SUBSET Objects]
      /\ takenBack' \in [Cameras -> SUBSET Objects]
  BY <1>1 DEF TypeOK
<1>3. mail' \in [Cameras -> [Objects -> Seq(Message)]]
  <2>1. ASSUME NEW c \in Cameras, NEW n \in Objects
        PROVE  Append(mail[c][n],
                 [type |-> "end", kept |-> n \in worth[c], over |-> TRUE])
                 \in Seq(Message)
    <3>1. [type |-> "end", kept |-> n \in worth[c], over |-> TRUE] \in Message
      BY DEF Message
    <3>2. mail[c][n] \in Seq(Message)
      BY DEF TypeOK
    <3> QED
      BY <3>1, <3>2, Appended
  <2>2. \A c \in Cameras, n \in Objects : mail[c][n] \in Seq(Message)
    BY DEF TypeOK
  <2> QED
    BY <1>1, <2>1, <2>2
<1>4. tracked' \in [Cameras -> [Objects -> {"absent", "active", "ended"}]]
  <2>1. tracked' = [c \in Cameras |->
                      IF c \in Touched("add") \cup Touched("remove")
                        THEN [n \in Objects |-> "absent"]
                      ELSE IF Disabled(c) THEN Ended(c, Active(c))
                      ELSE tracked[c]]
    BY DEF ApplyUpdates
  <2>2. \A c \in Cameras :
          /\ Ended(c, Active(c)) \in [Objects -> {"absent", "active", "ended"}]
          /\ tracked[c] \in [Objects -> {"absent", "active", "ended"}]
    BY DEF TypeOK, Ended
  <2> QED
    BY <2>1, <2>2
<1>5. states' \subseteq Cameras
  BY <1>0 DEF TypeOK, ApplyUpdates
<1>6. /\ known' \in [Cameras -> BOOLEAN] /\ processor' = "frame"
      /\ updates' = <<>>
  BY DrainedTypes DEF ApplyUpdates
<1>7. resized' \in [Cameras -> BOOLEAN] /\ prev' \in [Cameras -> BOOLEAN]
  BY <1>6 DEF ApplyUpdates, TypeOK
<1>8. updates' \in Seq(Updates)
  BY <1>6, Empty
<1> QED
  BY <1>2, <1>3, <1>4, <1>5, <1>6, <1>7, <1>8
     DEF TypeOK, ApplyUpdates, userVars, trackerVars, eventVars

LEMMA FailTypes == TypeOK /\ FailToAdd => TypeOK'
<1> SUFFICES ASSUME TypeOK, FailToAdd PROVE TypeOK'
  OBVIOUS
<1>1. /\ known' \in [Cameras -> BOOLEAN] /\ updates' = <<>> /\ processor' = "dead"
  BY DrainedTypes DEF FailToAdd
<1>2. updates' \in Seq(Updates)
  BY <1>1, Empty
<1> QED
  BY <1>1, <1>2 DEF TypeOK, FailToAdd, userVars, trackerVars, eventVars, objectVars

LEMMA QuietTypes == TypeOK /\ (NoFrame \/ NoneFinished) => TypeOK'
  BY DEF TypeOK, NoFrame, NoneFinished, userVars, trackerVars, eventVars, objectVars

(* A batch that is taken is of a camera and its objects.                   *)
LEMMA BatchTaken ==
  ASSUME TypeOK, batches # <<>>, batches' = Tail(batches)
  PROVE  /\ batches' \in Seq(Cameras \X SUBSET Objects)
         /\ Len(batches') <= MaxBatches
         /\ Head(batches)[1] \in Cameras /\ Head(batches)[2] \subseteq Objects
<1>1. batches \in Seq(Cameras \X SUBSET Objects) /\ Len(batches) <= MaxBatches
  BY DEF TypeOK
<1>2. /\ Tail(batches) \in Seq(Cameras \X SUBSET Objects)
      /\ Len(Tail(batches)) = Len(batches) - 1 /\ Len(batches) \in Nat
      /\ Head(batches) \in Cameras \X SUBSET Objects
  BY <1>1, Elements, Shifted
<1>3. Len(batches') <= MaxBatches
  BY <1>1, <1>2, Constants
<1> QED
  BY <1>2, <1>3

LEMMA SkipTypes == TypeOK /\ SkipFrame => TypeOK'
<1> SUFFICES ASSUME TypeOK, SkipFrame PROVE TypeOK'
  OBVIOUS
<1>1. batches' \in Seq(Cameras \X SUBSET Objects) /\ Len(batches') <= MaxBatches
  BY BatchTaken DEF SkipFrame
<1> QED
  BY <1>1 DEF TypeOK, SkipFrame, userVars, trackerVars, eventVars, objectVars

(* What CameraState.update posts about an object is nothing or a message.  *)
LEMMA PostTypes ==
  ASSUME TypeOK, NEW c \in Cameras, NEW messages \in [Objects -> Seq(Message)],
         Post(c, messages)
  PROVE  mail' \in [Cameras -> [Objects -> Seq(Message)]]
<1>1. \A n \in Objects : mail[c][n] \o messages[n] \in Seq(Message)
  BY DEF TypeOK
<1> QED
  BY <1>1 DEF TypeOK, Post

(* What a frame does to an object: before says how far the object was      *)
(* tracked, in whether it is in the frame.                                 *)
Starts(c, n) ==
  /\ tracked'[c][n] = "active" /\ n \notin kept'[c]
  /\ mail'[c][n] =
       Append(mail[c][n], [type |-> "start", kept |-> FALSE, over |-> FALSE])
Ends(c, n) ==
  /\ tracked'[c][n] = "ended"
  /\ n \in takenBack'[c] <=> n \in takenBack[c] /\ n \notin kept'[c]
  /\ mail'[c][n] =
       Append(mail[c][n], [type |-> "end", kept |-> n \in kept'[c], over |-> TRUE])
Stays(c, n, before) ==
  /\ tracked'[c][n] = before
  /\ n \in kept'[c] <=> n \in kept[c]
  /\ n \in takenBack'[c] <=> n \in takenBack[c]
  /\ mail'[c][n] = mail[c][n]
SendsUpdate(c, n, before) ==
  /\ tracked'[c][n] = before
  /\ n \in takenBack'[c] <=>
       (n \in takenBack[c] \/ n \in kept[c]) /\ n \notin kept'[c]
  /\ mail'[c][n] = Append(mail[c][n], [type |-> "update", kept |-> n \in kept'[c],
                                       over |-> before = "ended"])

FrameTaken(c, n, in, before) ==
  /\ in /\ before = "absent" => Starts(c, n)
  /\ in /\ before # "absent" => Stays(c, n, before) \/ SendsUpdate(c, n, before)
  /\ ~in /\ before = "active" => Ends(c, n)
  /\ ~in /\ before # "active" => Stays(c, n, before)

(* A batch changes the objects of its camera only, each as FrameTaken      *)
(* says.                                                                   *)
LEMMA ObjectsUpdated ==
  ASSUME TypeOK, NEW c \in Cameras, NEW ids \in SUBSET Objects,
         NEW before \in [Objects -> {"absent", "active", "ended"}],
         UpdateObjects(c, ids, before)
  PROVE  /\ tracked' \in [Cameras -> [Objects -> {"absent", "active", "ended"}]]
         /\ kept' \in [Cameras -> SUBSET Objects]
         /\ takenBack' \in [Cameras -> SUBSET Objects]
         /\ mail' \in [Cameras -> [Objects -> Seq(Message)]]
         /\ \A d \in Cameras \ {c} :
              /\ tracked'[d] = tracked[d] /\ kept'[d] = kept[d]
              /\ takenBack'[d] = takenBack[d] /\ mail'[d] = mail[d]
         /\ \A n \in Objects : FrameTaken(c, n, n \in ids, before[n])
<1> DEFINE new == {n \in ids : before[n] = "absent"}
           removed == {n \in Objects \ ids : before[n] = "active"}
           start == [type |-> "start", kept |-> FALSE, over |-> FALSE]
           update(n, k) == [type |-> "update", kept |-> k,
                            over |-> before[n] = "ended"]
           end(k) == [type |-> "end", kept |-> k, over |-> TRUE]
           messages(upd, worth) == [n \in Objects |->
             IF n \in new THEN <<start>>
             ELSE IF n \in upd THEN <<update(n, n \in worth)>>
             ELSE IF n \in removed THEN <<end(n \in worth)>>
             ELSE <<>>]
<1>1. PICK upd \in SUBSET {n \in ids \ new : Len(mail[c][n]) < MaxMail} :
        \E worth \in SUBSET (upd \cup removed) :
          /\ tracked' = [tracked EXCEPT ![c] = [n \in Objects |->
                           IF n \in new THEN "active"
                           ELSE IF n \in removed THEN "ended" ELSE before[n]]]
          /\ kept' = [kept EXCEPT ![c] = (@ \ (new \cup upd \cup removed)) \cup worth]
          /\ takenBack' = [takenBack EXCEPT ![c] = (@ \cup (upd \cap kept[c])) \ worth]
          /\ Post(c, messages(upd, worth))
  BY DEF UpdateObjects
<1>2. PICK worth \in SUBSET (upd \cup removed) :
        /\ tracked' = [tracked EXCEPT ![c] = [n \in Objects |->
                         IF n \in new THEN "active"
                         ELSE IF n \in removed THEN "ended" ELSE before[n]]]
        /\ kept' = [kept EXCEPT ![c] = (@ \ (new \cup upd \cup removed)) \cup worth]
        /\ takenBack' = [takenBack EXCEPT ![c] = (@ \cup (upd \cap kept[c])) \ worth]
        /\ Post(c, messages(upd, worth))
  BY <1>1
<1>3. worth \subseteq upd \cup removed /\ upd \subseteq ids \ new
  BY <1>1, <1>2
<1>4. \A n \in Objects, k \in BOOLEAN :
        start \in Message /\ update(n, k) \in Message /\ end(k) \in Message
  BY DEF Message
<1>5. \A n \in Objects : n \in ids => (n \in new <=> before[n] = "absent")
  OBVIOUS
<1>6. \A n \in Objects : n \notin ids => (n \in removed <=> before[n] = "active")
  OBVIOUS
<1>7. \A n \in Objects : ~(n \in new /\ n \in removed) /\ (n \in new => n \in ids)
                          /\ (n \in removed => n \notin ids)
  OBVIOUS
<1>8. /\ tracked' \in [Cameras -> [Objects -> {"absent", "active", "ended"}]]
      /\ \A d \in Cameras \ {c} : tracked'[d] = tracked[d]
      /\ \A n \in Objects :
           tracked'[c][n] = IF n \in new THEN "active"
                            ELSE IF n \in removed THEN "ended" ELSE before[n]
  BY <1>2 DEF TypeOK
<1>9. /\ kept' \in [Cameras -> SUBSET Objects]
      /\ \A d \in Cameras \ {c} : kept'[d] = kept[d]
      /\ kept'[c] = (kept[c] \ (new \cup upd \cup removed)) \cup worth
      /\ takenBack' \in [Cameras -> SUBSET Objects]
      /\ \A d \in Cameras \ {c} : takenBack'[d] = takenBack[d]
      /\ takenBack'[c] = (takenBack[c] \cup (upd \cap kept[c])) \ worth
  BY <1>2, <1>3 DEF TypeOK
<1>10. messages(upd, worth) \in [Objects -> Seq(Message)]
  <2>1. ASSUME NEW n \in Objects, NEW k \in BOOLEAN
        PROVE  /\ <<start>> \in Seq(Message) /\ <<update(n, k)>> \in Seq(Message)
               /\ <<end(k)>> \in Seq(Message) /\ <<>> \in Seq(Message)
    <3> HIDE DEF start, update, end
    <3> QED
      BY <1>4, Single, Empty
  <2>2. \A n \in Objects : (n \in worth) \in BOOLEAN
    OBVIOUS
  <2> HIDE DEF start, update, end, new, removed
  <2> QED
    BY <2>1, <2>2
<1>11. /\ mail' \in [Cameras -> [Objects -> Seq(Message)]]
       /\ \A d \in Cameras \ {c} : mail'[d] = mail[d]
  <2> HIDE DEF messages
  <2>1. mail' \in [Cameras -> [Objects -> Seq(Message)]]
    BY <1>2, <1>10, PostTypes
  <2>2. \A d \in Cameras \ {c} : mail'[d] = mail[d]
    BY <1>2 DEF Post, TypeOK
  <2> QED
    BY <2>1, <2>2
<1>12. ASSUME NEW n \in Objects
       PROVE  mail'[c][n] =
                IF n \in new THEN Append(mail[c][n], start)
                ELSE IF n \in upd THEN Append(mail[c][n], update(n, n \in worth))
                ELSE IF n \in removed THEN Append(mail[c][n], end(n \in worth))
                ELSE mail[c][n]
  <2>1. mail'[c][n] = mail[c][n] \o messages(upd, worth)[n]
    <3> HIDE DEF messages
    <3> QED
      BY <1>2 DEF Post, TypeOK
  <2>2. messages(upd, worth)[n] =
          IF n \in new THEN <<start>>
          ELSE IF n \in upd THEN <<update(n, n \in worth)>>
          ELSE IF n \in removed THEN <<end(n \in worth)>>
          ELSE <<>>
    OBVIOUS
  <2>3. mail[c][n] \in Seq(Message) /\ (n \in worth) \in BOOLEAN
    BY DEF TypeOK
  <2>4. /\ start \in Message /\ update(n, n \in worth) \in Message
        /\ end(n \in worth) \in Message
    BY <1>4, <2>3
  <2> HIDE DEF messages, start, update, end, new, removed
  <2>5. /\ mail[c][n] \o <<>> = mail[c][n]
        /\ mail[c][n] \o <<start>> = Append(mail[c][n], start)
        /\ mail[c][n] \o <<update(n, n \in worth)>>
             = Append(mail[c][n], update(n, n \in worth))
        /\ mail[c][n] \o <<end(n \in worth)>> = Append(mail[c][n], end(n \in worth))
    BY <2>3, <2>4, Posted
  <2> QED
    BY <2>1, <2>2, <2>5
<1>13. ASSUME NEW n \in Objects
       PROVE  FrameTaken(c, n, n \in ids, before[n])
  <2>0. before[n] \in {"absent", "active", "ended"}
    OBVIOUS
  <2> HIDE DEF new, removed, messages
  <2>1. CASE n \in ids /\ before[n] = "absent"
    <3>1. n \in new /\ n \notin removed /\ n \notin upd
      BY <1>3, <1>5, <1>7, <2>1
    <3>2. n \notin kept'[c]
      BY <1>3, <1>9, <3>1
    <3> QED
      BY <1>8, <1>12, <2>1, <3>1, <3>2 DEF FrameTaken, Starts
  <2>2. CASE n \in ids /\ before[n] # "absent"
    <3>1. n \notin new /\ n \notin removed
      BY <1>5, <1>7, <2>2
    <3>2. tracked'[c][n] = before[n]
      BY <1>8, <3>1
    <3>3. CASE n \in upd
      <4>1. /\ n \in kept'[c] <=> n \in worth
            /\ n \in takenBack'[c] <=>
                 (n \in takenBack[c] \/ n \in kept[c]) /\ n \notin kept'[c]
        BY <1>3, <1>9, <3>3
      <4>2. (n \in kept'[c]) = (n \in worth)
        BY <4>1
      <4>3. mail'[c][n] = Append(mail[c][n], update(n, n \in kept'[c]))
        BY <1>12, <3>1, <3>3, <4>2
      <4> QED
        BY <2>2, <3>2, <4>1, <4>3 DEF FrameTaken, SendsUpdate
    <3>4. CASE n \notin upd
      <4>1. /\ n \in kept'[c] <=> n \in kept[c]
            /\ n \in takenBack'[c] <=> n \in takenBack[c]
        BY <1>3, <1>9, <3>1, <3>4
      <4> QED
        BY <1>12, <2>2, <3>1, <3>2, <3>4, <4>1 DEF FrameTaken, Stays
    <3> QED
      BY <3>3, <3>4
  <2>3. CASE n \notin ids /\ before[n] = "active"
    <3>1. n \notin new /\ n \in removed /\ n \notin upd
      BY <1>3, <1>6, <1>7, <2>3
    <3>2. /\ n \in kept'[c] <=> n \in worth
          /\ n \in takenBack'[c] <=> n \in takenBack[c] /\ n \notin kept'[c]
      BY <1>3, <1>9, <3>1
    <3>3. (n \in kept'[c]) = (n \in worth)
      BY <3>2
    <3> QED
      BY <1>8, <1>12, <2>3, <3>1, <3>2, <3>3 DEF FrameTaken, Ends
  <2>4. CASE n \notin ids /\ before[n] # "active"
    <3>1. n \notin new /\ n \notin removed /\ n \notin upd
      BY <1>3, <1>6, <1>7, <2>4
    <3>2. /\ n \in kept'[c] <=> n \in kept[c]
          /\ n \in takenBack'[c] <=> n \in takenBack[c]
      BY <1>3, <1>9, <3>1
    <3> QED
      BY <1>8, <1>12, <2>4, <3>1, <3>2 DEF FrameTaken, Stays
  <2> QED
    BY <2>1, <2>2, <2>3, <2>4
<1> QED
  BY <1>8, <1>9, <1>11, <1>13

LEMMA TakeTypes == TypeOK /\ TakeFrame => TypeOK'
<1> SUFFICES ASSUME TypeOK, TakeFrame PROVE TypeOK'
  OBVIOUS
<1> DEFINE c == Head(batches)[1]
           ids == Head(batches)[2]
           before == IF resized[c] THEN [n \in Objects |-> "absent"] ELSE tracked[c]
<1>1. /\ batches' \in Seq(Cameras \X SUBSET Objects) /\ Len(batches') <= MaxBatches
      /\ c \in Cameras /\ ids \in SUBSET Objects
  BY BatchTaken DEF TakeFrame
<1>2. before \in [Objects -> {"absent", "active", "ended"}]
  BY <1>1 DEF TypeOK
<1>3. /\ resized' = [resized EXCEPT ![c] = FALSE]
      /\ \/ UpdateObjects(c, ids, before)
         \/ /\ tracked' = [tracked EXCEPT ![c] = before]
            /\ UNCHANGED <<kept, takenBack, mail>>
  BY DEF TakeFrame
<1>4. UNCHANGED <<configured, enabled, changes, known, tracker, seen, used, updates,
                  orders, states, prev, inProcess, row, cleaning, finished,
                  disturbed>>
      /\ processor' = "finished"
  BY DEF TakeFrame, userVars, trackerVars, eventVars
<1> HIDE DEF c, ids, before
<1>5. /\ tracked' \in [Cameras -> [Objects -> {"absent", "active", "ended"}]]
      /\ kept' \in [Cameras -> SUBSET Objects]
      /\ takenBack' \in [Cameras -> SUBSET Objects]
      /\ mail' \in [Cameras -> [Objects -> Seq(Message)]]
  <2>1. CASE UpdateObjects(c, ids, before)
    BY <1>1, <1>2, <2>1, ObjectsUpdated
  <2>2. CASE /\ tracked' = [tracked EXCEPT ![c] = before]
             /\ UNCHANGED <<kept, takenBack, mail>>
    BY <2>2, <1>1, <1>2 DEF TypeOK
  <2> QED
    BY <1>3, <2>1, <2>2
<1>6. resized' \in [Cameras -> BOOLEAN]
  BY <1>1, <1>3 DEF TypeOK
<1> QED
  BY <1>1, <1>4, <1>5, <1>6 DEF TypeOK

LEMMA ForgetTypes ==
  ASSUME TypeOK, NEW c \in Cameras, NEW n \in Objects, ForgetObject(c, n)
  PROVE  TypeOK'
<1>1. finished' \in [Cameras -> [Objects -> Nat]]
  <2>1. /\ finished[c][n] > 0 /\ finished \in [Cameras -> [Objects -> Nat]]
        /\ finished' = [finished EXCEPT ![c][n] = finished[c][n] - 1]
    BY DEF TypeOK, ForgetObject
  <2>2. finished[c][n] - 1 \in Nat
    BY <2>1
  <2> QED
    BY <2>1, <2>2
<1>2. tracked' \in [Cameras -> [Objects -> {"absent", "active", "ended"}]]
  <2>1. tracked \in [Cameras -> [Objects -> {"absent", "active", "ended"}]]
    BY DEF TypeOK
  <2>2. tracked' \in {tracked, [tracked EXCEPT ![c][n] = "absent"]}
    BY DEF ForgetObject
  <2> QED
    BY <2>1, <2>2
<1>3. processor' \in {"config", "frame", "finished", "dead"}
  <2>1. processor' = processor \/ processor' = "dead"
    BY DEF ForgetObject
  <2> QED
    BY <2>1 DEF TypeOK
<1> QED
  BY <1>1, <1>2, <1>3 DEF TypeOK, ForgetObject, userVars, trackerVars, eventVars

(* The message at the head of the mail. *)
LEMMA MessageTypes ==
  ASSUME TypeOK, NEW c \in Cameras, NEW n \in Objects, mail[c][n] # <<>>
  PROVE  /\ Head(mail[c][n]) \in Message
         /\ Head(mail[c][n]).type \in {"start", "update", "end"}
         /\ Head(mail[c][n]).kept \in BOOLEAN /\ Head(mail[c][n]).over \in BOOLEAN
         /\ Tail(mail[c][n]) \in Seq(Message)
         /\ inProcess[c][n] # None =>
              /\ inProcess[c][n] \in Event
              /\ inProcess[c][n].kept \in BOOLEAN /\ inProcess[c][n].over \in BOOLEAN
<1>1. mail[c][n] \in Seq(Message)
  BY DEF TypeOK
<1>2. Head(mail[c][n]) \in Message /\ Tail(mail[c][n]) \in Seq(Message)
  BY <1>1, Shifted
<1>3. inProcess[c][n] # None => inProcess[c][n] \in Event
  BY DEF TypeOK
<1> QED
  BY <1>2, <1>3 DEF Message, Event

(* What the event processor does with a message, for the event alone.      *)
Stored(c, n, m) ==
  /\ m.type = "start" \/ inProcess[c][n] = None
  /\ inProcess'[c][n] = [kept |-> m.kept, over |-> m.over]
  /\ row'[c][n] = row[c][n] /\ finished'[c][n] = finished[c][n]
LeftAlone(c, n, m) ==
  /\ inProcess[c][n] # None /\ ~known[c]
  /\ inProcess'[c][n] = inProcess[c][n] /\ row'[c][n] = row[c][n]
  /\ finished'[c][n] = finished[c][n]
Written(c, n, m) ==
  /\ inProcess[c][n] # None /\ m.type # "start"
  /\ DbUpdateDue(inProcess[c][n], m) \/ m.kept
  /\ row'[c][n] = (IF m.over THEN "ended" ELSE "open")
  /\ inProcess'[c][n] = IF m.type = "end" THEN None
                        ELSE [kept |-> m.kept \/ inProcess[c][n].kept, over |-> m.over]
  /\ finished'[c][n] = IF m.type = "end" THEN finished[c][n] + 1 ELSE finished[c][n]
Passed(c, n, m) ==
  /\ inProcess[c][n] # None /\ m.type # "start"
  /\ ~DbUpdateDue(inProcess[c][n], m)
  /\ row'[c][n] = row[c][n]
  /\ \/ m.type = "end" /\ inProcess'[c][n] = None
     \/ m.type # "end" /\ inProcess'[c][n] \in {inProcess[c][n],
                                                [kept |-> m.kept, over |-> m.over]}
  /\ finished'[c][n] = IF m.type = "end" THEN finished[c][n] + 1 ELSE finished[c][n]

(* The event processor takes one message and does one of four things to    *)
(* the event it is about.                                                  *)
LEMMA EventHandled ==
  ASSUME TypeOK, NEW c \in Cameras, NEW n \in Objects, HandleEvent(c, n)
  PROVE  /\ inProcess' \in [Cameras -> [Objects -> Event \cup {None}]]
         /\ row' \in [Cameras -> [Objects -> {"none", "open", "ended"}]]
         /\ finished' \in [Cameras -> [Objects -> Nat]]
         /\ mail' \in [Cameras -> [Objects -> Seq(Message)]]
         /\ mail[c][n] # <<>> /\ mail'[c][n] = Tail(mail[c][n])
         /\ \A d \in Cameras, k \in Objects : <<d, k>> # <<c, n>> =>
              /\ inProcess'[d][k] = inProcess[d][k] /\ row'[d][k] = row[d][k]
              /\ finished'[d][k] = finished[d][k] /\ mail'[d][k] = mail[d][k]
         /\ LET m == Head(mail[c][n])
            IN Stored(c, n, m) \/ LeftAlone(c, n, m) \/ Written(c, n, m) \/ Passed(c, n, m)
<1> DEFINE m == Head(mail[c][n])
           more == IF m.type = "end" THEN finished[c][n] + 1 ELSE finished[c][n]
<1>0. /\ inProcess \in [Cameras -> [Objects -> Event \cup {None}]]
      /\ row \in [Cameras -> [Objects -> {"none", "open", "ended"}]]
      /\ finished \in [Cameras -> [Objects -> Nat]]
      /\ mail \in [Cameras -> [Objects -> Seq(Message)]]
  BY DEF TypeOK
<1>1. mail[c][n] # <<>> /\ mail' = [mail EXCEPT ![c][n] = Tail(@)]
  BY DEF HandleEvent
<1>2. /\ m \in Message /\ m.type \in {"start", "update", "end"}
      /\ m.kept \in BOOLEAN /\ m.over \in BOOLEAN
      /\ Tail(mail[c][n]) \in Seq(Message)
      /\ inProcess[c][n] # None => inProcess[c][n].kept \in BOOLEAN
  BY <1>1, MessageTypes
<1>3. \/ StoreEvent(c, n, m)
      \/ /\ m.type # "start" /\ inProcess[c][n] # None
         /\ WriteEvent(c, n, m) \/ KeepRow(c, n, m)
  BY DEF HandleEvent
<1>4. /\ mail' \in [Cameras -> [Objects -> Seq(Message)]]
      /\ mail'[c][n] = Tail(mail[c][n])
      /\ \A d \in Cameras, k \in Objects : <<d, k>> # <<c, n>> =>
           mail'[d][k] = mail[d][k]
  BY <1>0, <1>1, <1>2
<1> HIDE DEF m
<1>5. more \in Nat
  BY <1>0
<1>6. [kept |-> m.kept, over |-> m.over] \in Event
  BY <1>2 DEF Event
<1>7. CASE StoreEvent(c, n, m)
  <2>1. /\ inProcess' = [inProcess EXCEPT ![c][n] = [kept |-> m.kept, over |-> m.over]]
        /\ row' = row /\ finished' = finished
    BY <1>7 DEF StoreEvent
  <2>2. Stored(c, n, m)
    BY <1>0, <1>7, <2>1 DEF Stored, StoreEvent
  <2>3. /\ inProcess' \in [Cameras -> [Objects -> Event \cup {None}]]
        /\ \A d \in Cameras, k \in Objects : <<d, k>> # <<c, n>> =>
              inProcess'[d][k] = inProcess[d][k]
    BY <1>0, <1>6, <2>1
  <2> QED
    BY <1>0, <1>1, <1>4, <2>1, <2>2, <2>3 DEF m
<1>8. CASE m.type # "start" /\ inProcess[c][n] # None /\ WriteEvent(c, n, m)
  <2>1. CASE UNCHANGED <<inProcess, row, finished>> /\ ~known[c]
    <3>1. LeftAlone(c, n, m)
      BY <1>8, <2>1 DEF LeftAlone
    <3> QED
      BY <1>0, <1>1, <1>4, <2>1, <3>1 DEF m
  <2>2. CASE ~(UNCHANGED <<inProcess, row, finished>> /\ ~known[c])
    <3> DEFINE e == IF m.type = "end" THEN None
                    ELSE [kept |-> m.kept \/ inProcess[c][n].kept, over |-> m.over]
               r == IF m.over THEN "ended" ELSE "open"
    <3>1. /\ row' = [row EXCEPT ![c][n] = r]
          /\ inProcess' = [inProcess EXCEPT ![c][n] = e]
          /\ finished' = [finished EXCEPT ![c][n] = more]
      BY <1>0, <1>8, <2>2 DEF WriteEvent
    <3>2. e \in Event \cup {None} /\ r \in {"none", "open", "ended"}
      BY <1>2, <1>8 DEF Event
    <3>3. DbUpdateDue(inProcess[c][n], m) \/ m.kept
      BY <1>8 DEF WriteEvent
    <3>4. inProcess'[c][n] = e /\ row'[c][n] = r /\ finished'[c][n] = more
      BY <1>0, <3>1
    <3>5. Written(c, n, m)
      BY <1>8, <3>3, <3>4 DEF Written
    <3> HIDE DEF e, r, more
    <3>6. /\ inProcess' \in [Cameras -> [Objects -> Event \cup {None}]]
          /\ row' \in [Cameras -> [Objects -> {"none", "open", "ended"}]]
          /\ finished' \in [Cameras -> [Objects -> Nat]]
      BY <1>0, <1>5, <3>1, <3>2
    <3>7. \A d \in Cameras, k \in Objects : <<d, k>> # <<c, n>> =>
              /\ inProcess'[d][k] = inProcess[d][k] /\ row'[d][k] = row[d][k]
              /\ finished'[d][k] = finished[d][k]
      BY <1>0, <3>1
    <3> QED
      BY <1>1, <1>4, <3>5, <3>6, <3>7 DEF m
  <2> QED
    BY <2>1, <2>2
<1>9. CASE m.type # "start" /\ inProcess[c][n] # None /\ KeepRow(c, n, m)
  <2>1. PICK e \in {None, inProcess[c][n], [kept |-> m.kept, over |-> m.over]} :
          /\ inProcess' = [inProcess EXCEPT ![c][n] = e]
          /\ m.type = "end" <=> e = None
    <3>1. CASE m.type = "end"
      BY <1>0, <1>9, <3>1 DEF KeepRow
    <3>2. CASE m.type # "end" /\ inProcess' = inProcess
      BY <1>0, <1>9, <3>2
    <3>3. CASE m.type # "end" /\ inProcess' # inProcess
      <4>1. [kept |-> m.kept, over |-> m.over] # None
        BY <1>6, NoneAssumption
      <4> QED
        BY <1>9, <3>3, <4>1 DEF KeepRow
    <3> QED
      BY <3>1, <3>2, <3>3
  <2>2. e \in Event \cup {None}
    BY <1>0, <1>6
  <2>3. row' = row /\ finished' = [finished EXCEPT ![c][n] = more]
        /\ ~DbUpdateDue(inProcess[c][n], m)
    BY <1>0, <1>9 DEF KeepRow
  <2>4. inProcess'[c][n] = e /\ row'[c][n] = row[c][n] /\ finished'[c][n] = more
    BY <1>0, <2>1, <2>3
  <2>5. Passed(c, n, m)
    BY <1>9, <2>1, <2>3, <2>4 DEF Passed
  <2> HIDE DEF more
  <2>6. /\ inProcess' \in [Cameras -> [Objects -> Event \cup {None}]]
        /\ finished' \in [Cameras -> [Objects -> Nat]]
    BY <1>0, <1>5, <2>1, <2>2, <2>3
  <2>7. \A d \in Cameras, k \in Objects : <<d, k>> # <<c, n>> =>
            /\ inProcess'[d][k] = inProcess[d][k]
            /\ finished'[d][k] = finished[d][k]
    BY <1>0, <2>1, <2>3
  <2> QED
    BY <1>0, <1>1, <1>4, <2>3, <2>5, <2>6, <2>7 DEF m
<1> QED
  BY <1>3, <1>7, <1>8, <1>9

LEMMA HandleTypes ==
  ASSUME TypeOK, NEW c \in Cameras, NEW n \in Objects, HandleEvent(c, n)
  PROVE  TypeOK'
<1>1. /\ inProcess' \in [Cameras -> [Objects -> Event \cup {None}]]
      /\ row' \in [Cameras -> [Objects -> {"none", "open", "ended"}]]
      /\ finished' \in [Cameras -> [Objects -> Nat]]
      /\ mail' \in [Cameras -> [Objects -> Seq(Message)]]
  BY EventHandled
<1> QED
  BY <1>1 DEF TypeOK, HandleEvent, userVars, trackerVars, objectVars

LEMMA ChangeTypes ==
  ASSUME TypeOK, NEW c \in Cameras,
         \/ DisableCamera(c) \/ EnableCamera(c) \/ RemoveCamera(c)
         \/ AddCamera(c) \/ ResizeCamera(c)
  PROVE  TypeOK'
<1>0. /\ changes' = changes + 1 /\ changes < MaxChanges
  BY DEF DisableCamera, EnableCamera, RemoveCamera, AddCamera, ResizeCamera, Change
<1>1. changes' \in 0..MaxChanges
  BY <1>0, Constants DEF TypeOK
<1>2. /\ updates \in Seq(Updates) /\ orders \in Seq(Updates)
      /\ <<"add", c>> \in Updates /\ <<"remove", c>> \in Updates
  BY DEF TypeOK, Updates
<1>3. \A q \in {updates, orders}, u \in {<<"add", c>>, <<"remove", c>>} :
        Append(q, u) \in Seq(Updates)
  BY <1>2, Appended
<1>4. CASE DisableCamera(c)
  BY <1>1, <1>4 DEF TypeOK, DisableCamera, trackerVars, objectVars, eventVars
<1>5. CASE EnableCamera(c)
  <2>1. disturbed' \in [Cameras -> BOOLEAN] /\ enabled' \in [Cameras -> BOOLEAN]
    BY <1>5, Zenon DEF TypeOK, EnableCamera
  <2> QED
    BY <1>1, <1>5, <2>1 DEF TypeOK, EnableCamera, trackerVars, objectVars, eventVars
<1>6. CASE RemoveCamera(c)
  <2>1. updates' \in Seq(Updates) /\ orders' \in Seq(Updates)
    BY <1>3, <1>6 DEF RemoveCamera
  <2>2. /\ configured' \in [Cameras -> BOOLEAN] /\ cleaning' \in [Cameras -> BOOLEAN]
        /\ disturbed' \in [Cameras -> BOOLEAN]
    BY <1>6 DEF TypeOK, RemoveCamera
  <2> QED
    BY <1>1, <1>6, <2>1, <2>2
       DEF TypeOK, RemoveCamera, trackerVars, objectVars, eventVars
<1>7. CASE AddCamera(c)
  <2>1. updates' \in Seq(Updates) /\ orders' \in Seq(Updates)
    BY <1>3, <1>7 DEF AddCamera
  <2>2. configured' \in [Cameras -> BOOLEAN] /\ enabled' \in [Cameras -> BOOLEAN]
    BY <1>7 DEF TypeOK, AddCamera
  <2> QED
    BY <1>1, <1>7, <2>1, <2>2
       DEF TypeOK, AddCamera, trackerVars, objectVars, eventVars
<1>8. CASE ResizeCamera(c)
  <2>1. /\ resized' \in [Cameras -> BOOLEAN] /\ disturbed' \in [Cameras -> BOOLEAN]
        /\ seen' \in [Cameras -> SUBSET Objects]
    BY <1>8 DEF TypeOK, ResizeCamera
  <2> QED
    BY <1>1, <1>8, <2>1 DEF TypeOK, ResizeCamera, objectVars, eventVars
<1> QED
  BY <1>4, <1>5, <1>6, <1>7, <1>8

LEMMA CleanTypes ==
  ASSUME TypeOK, NEW c \in Cameras, CleanCamera(c) PROVE TypeOK'
<1>1. /\ cleaning' \in [Cameras -> BOOLEAN]
      /\ row' \in [Cameras -> [Objects -> {"none", "open", "ended"}]]
  BY DEF TypeOK, CleanCamera
<1> QED
  BY <1>1 DEF TypeOK, CleanCamera, userVars, trackerVars, objectVars

LEMMA RestartTypes == TypeOK /\ Restart => TypeOK'
<1> SUFFICES ASSUME TypeOK, Restart PROVE TypeOK'
  OBVIOUS
<1>1. /\ changes' \in 0..MaxChanges /\ batches' = <<>> /\ Len(batches') <= MaxBatches
      /\ finished' \in [Cameras -> [Objects -> Nat]]
  BY Constants DEF TypeOK, Restart, All, PerObject
<1>2. /\ configured' \in [Cameras -> BOOLEAN] /\ known' \in [Cameras -> BOOLEAN]
      /\ enabled' \in [Cameras -> BOOLEAN] /\ resized' \in [Cameras -> BOOLEAN]
      /\ prev' \in [Cameras -> BOOLEAN] /\ cleaning' \in [Cameras -> BOOLEAN]
      /\ disturbed' \in [Cameras -> BOOLEAN]
  BY DEF TypeOK, Restart, All
<1>3. /\ tracker' \in [Cameras -> {"on", "off", "stopped"}]
      /\ processor' \in {"config", "frame", "finished", "dead"}
      /\ states' \subseteq Cameras
  BY DEF Restart
<1>4. /\ seen' \in [Cameras -> SUBSET Objects]
      /\ kept' \in [Cameras -> SUBSET Objects]
      /\ takenBack' \in [Cameras -> SUBSET Objects]
      /\ tracked' \in [Cameras -> [Objects -> {"absent", "active", "ended"}]]
  BY DEF Restart, All, PerObject
<1>5. row' \in [Cameras -> [Objects -> {"none", "open", "ended"}]]
  BY DEF TypeOK, Restart
<1>6. /\ batches' \in Seq(Cameras \X SUBSET Objects)
      /\ updates' \in Seq(Updates) /\ orders' \in Seq(Updates)
  BY Empty DEF Restart
<1>7. mail' \in [Cameras -> [Objects -> Seq(Message)]]
  <2>1. <<>> \in Seq(Message)
    BY Empty
  <2> QED
    BY <2>1 DEF Restart, All, PerObject
<1>8. /\ inProcess' \in [Cameras -> [Objects -> Event \cup {None}]]
      /\ used' \in [Cameras -> Nat]
  BY DEF TypeOK, Restart, All, PerObject
<1> QED
  BY <1>1, <1>2, <1>3, <1>4, <1>5, <1>6, <1>7, <1>8 DEF TypeOK

LEMMA StepTypes == TypeOK /\ [Next]_vars => TypeOK'
<1>1. TypeOK /\ UNCHANGED vars => TypeOK'
  BY DEF TypeOK, vars
<1> QED
  BY <1>1, FrameTypes, DetectTypes, MaintainTypes, ApplyTypes, FailTypes, QuietTypes,
     SkipTypes, TakeTypes, ForgetTypes, HandleTypes, ChangeTypes, CleanTypes,
     RestartTypes
     DEF Next, ObjectProcessor, Detect

(* Every part of the state keeps the shape the code gives it; the queue of *)
(* frames keeps its size.                                                  *)
THEOREM Types == Spec => []TypeOK
  BY InitTypes, StepTypes, PTL DEF Spec

-----------------------------------------------------------------------------
(* The inductive invariant *)

(* Object n of camera c is in a batch of c, is missing in it, is gone from *)
(* all batches behind it and from the tracker.                             *)
In(c, n, i) == batches[i][1] = c /\ n \in batches[i][2]
Out(c, n, i) == batches[i][1] = c /\ n \notin batches[i][2]
Gone(c, n, j) ==
  /\ n \notin seen[c]
  /\ \A k \in 1..Len(batches) : k > j => ~In(c, n, k)

(* An id that was not handed out is nowhere. *)
Unborn(c, n) ==
  n > used[c] =>
    /\ Gone(c, n, 0)
    /\ tracked[c][n] = "absent" /\ mail[c][n] = <<>>
    /\ inProcess[c][n] = None /\ row[c][n] = "none"
Births == \A c \in Cameras, n \in Objects : Unborn(c, n)

(* A camera that is not disturbed. *)
Configured(c) ==
  /\ ~cleaning[c] /\ ~resized[c]
  /\ \A i \in 1..Len(updates) : updates[i] # <<"remove", c>>
  /\ \A i \in 1..Len(orders) : orders[i] # <<"remove", c>>
  /\ c \in states =>
       known[c] /\ \A i \in 1..Len(updates) : updates[i] # <<"add", c>>
  /\ c \notin states => \A n \in Objects : tracked[c][n] = "absent"
  /\ ~configured[c] =>
       /\ tracker[c] = "stopped" /\ seen[c] = {} /\ c \notin states
       /\ \A i \in 1..Len(batches) : batches[i][1] # c
       /\ \A i \in 1..Len(updates) : updates[i] # <<"add", c>>
       /\ \A i \in 1..Len(orders) : orders[i] # <<"add", c>>

(* An object that has left the frames does not come back: once for the     *)
(* tracker, and once for an object processor that follows it.              *)
Order(c, n) ==
  /\ \A i, j \in 1..Len(batches) : i < j /\ In(c, n, i) /\ Out(c, n, j) => Gone(c, n, j)
  /\ tracked[c][n] # "absent" =>
       \A j \in 1..Len(batches) : Out(c, n, j) => Gone(c, n, j)

(* An object that has ended, or whose row is left, is in no frame that the *)
(* object processor will take.                                             *)
Done(c, n) ==
  tracked[c][n] = "ended" \/ (tracked[c][n] = "absent" /\ row[c][n] # "none")
NoReturn(c, n) == (enabled[c] \/ prev[c]) /\ Done(c, n) => Gone(c, n, 0)

(* The messages about an object on their way and what has arrived: a start *)
(* comes first and only to a new event, an end comes last.                 *)
Quiet(c, n) == mail[c][n] = <<>> /\ inProcess[c][n] = None
Flow(c, n) ==
  /\ row[c][n] \in {"none", "open"}
  /\ \A i \in 1..Len(mail[c][n]) :
       /\ mail[c][n][i].type = "start" =>
            i = 1 /\ inProcess[c][n] = None /\ row[c][n] = "none"
       /\ mail[c][n][i].over <=> mail[c][n][i].type = "end"
       /\ mail[c][n][i].type = "end" => i = Len(mail[c][n])
  /\ inProcess[c][n] = None =>
       mail[c][n] # <<>> /\ mail[c][n][1].type = "start"
  /\ inProcess[c][n] # None => ~inProcess[c][n].over

(* The four phases of an object: not tracked, active, ended with the end   *)
(* on its way, ended and reported.                                         *)
Phase(c, n) ==
  \/ tracked[c][n] = "absent" /\ finished[c][n] = 0 /\ Quiet(c, n)
  \/ tracked[c][n] = "active" /\ finished[c][n] = 0 /\ Flow(c, n) /\ ~Ending(c, n)
  \/ tracked[c][n] = "ended" /\ finished[c][n] = 0 /\ Flow(c, n) /\ Ending(c, n)
  \/ tracked[c][n] = "ended" /\ finished[c][n] = 1 /\ Quiet(c, n)

Undisturbed ==
  \A c \in Cameras : ~disturbed[c] =>
    /\ Configured(c)
    /\ \A n \in Objects : Order(c, n) /\ NoReturn(c, n) /\ Phase(c, n)

Inv == TypeOK /\ Births /\ Undisturbed /\ ProcessorSurvives

-----------------------------------------------------------------------------
(* Frames *)

(* What is on the queue.                                                   *)
LEMMA Batches ==
  TypeOK => /\ Len(batches) \in Nat
            /\ \A i \in 1..Len(batches) :
                 batches[i][1] \in Cameras /\ batches[i][2] \subseteq Objects
<1> SUFFICES ASSUME TypeOK
             PROVE  /\ Len(batches) \in Nat
                    /\ \A i \in 1..Len(batches) :
                         batches[i][1] \in Cameras /\ batches[i][2] \subseteq Objects
  OBVIOUS
<1>1. batches \in Seq(Cameras \X SUBSET Objects)
  BY DEF TypeOK
<1>2. /\ Len(batches) \in Nat
      /\ \A i \in 1..Len(batches) : batches[i] \in Cameras \X SUBSET Objects
  BY <1>1, Elements
<1> QED
  BY <1>2

(* A batch is taken from the queue, whatever is done with it. *)
LEMMA OrderTaken ==
  ASSUME TypeOK, batches # <<>>, batches' = Tail(batches), seen' = seen,
         NEW c \in Cameras, NEW n \in Objects
  PROVE  /\ Gone(c, n, 0) => Gone(c, n, 0)'
         /\ Order(c, n) /\ tracked[c][n] # "absent" /\ Out(c, n, 1) => Gone(c, n, 0)'
         /\ Order(c, n) /\ (tracked'[c][n] # "absent" =>
                              tracked[c][n] # "absent" \/ In(c, n, 1))
              => Order(c, n)'
<1>1. batches \in Seq(Cameras \X SUBSET Objects)
  BY DEF TypeOK
<1>2. /\ Len(batches) \in Nat /\ Len(batches) >= 1
      /\ Len(batches') = Len(batches) - 1
      /\ \A i \in 1..(Len(batches) - 1) : batches'[i] = batches[i + 1]
  BY <1>1, Elements, Shifted
<1>3. \A i \in 1..Len(batches') :
        /\ i + 1 \in 1..Len(batches)
        /\ In(c, n, i)' <=> In(c, n, i + 1)
        /\ Out(c, n, i)' <=> Out(c, n, i + 1)
  BY <1>2 DEF In, Out
<1>4. \A j \in Nat : Gone(c, n, j + 1) => Gone(c, n, j)'
  BY <1>2, <1>3 DEF Gone
<1>5. Gone(c, n, 0) => Gone(c, n, 1)
  BY <1>2 DEF Gone
<1>6. Gone(c, n, 0) => Gone(c, n, 0)'
  BY <1>4, <1>5
<1>7. 1 \in 1..Len(batches)
  BY <1>2
<1>8. ASSUME Order(c, n), tracked[c][n] # "absent", Out(c, n, 1)
      PROVE  Gone(c, n, 0)'
  BY <1>4, <1>7, <1>8 DEF Order
<1>9. ASSUME Order(c, n),
             tracked'[c][n] # "absent" => tracked[c][n] # "absent" \/ In(c, n, 1)
      PROVE  Order(c, n)'
  <2>1. ASSUME NEW i \in 1..Len(batches'), NEW j \in 1..Len(batches'), i < j,
               In(c, n, i)', Out(c, n, j)'
        PROVE  Gone(c, n, j)'
    <3>1. /\ i + 1 \in 1..Len(batches) /\ j + 1 \in 1..Len(batches)
          /\ i + 1 < j + 1 /\ In(c, n, i + 1) /\ Out(c, n, j + 1)
      BY <1>2, <1>3, <2>1
    <3>2. Gone(c, n, j + 1)
      BY <1>9, <3>1 DEF Order
    <3> QED
      BY <1>2, <1>4, <3>2
  <2>2. ASSUME tracked'[c][n] # "absent", NEW j \in 1..Len(batches'), Out(c, n, j)'
        PROVE  Gone(c, n, j)'
    <3>1. j + 1 \in 1..Len(batches) /\ 1 < j + 1 /\ Out(c, n, j + 1)
      BY <1>2, <1>3, <2>2
    <3>2. Gone(c, n, j + 1)
      <4>1. CASE tracked[c][n] # "absent"
        BY <1>9, <3>1, <4>1 DEF Order
      <4>2. CASE In(c, n, 1)
        BY <1>7, <1>9, <3>1, <4>2 DEF Order
      <4> QED
        BY <1>9, <2>2, <4>1, <4>2
    <3> QED
      BY <1>2, <1>4, <3>2
  <2> QED
    BY <2>1, <2>2 DEF Order
<1> QED
  BY <1>6, <1>8, <1>9

(* The tracker forgets objects, or nothing happens to the frames. *)
LEMMA OrderKept ==
  ASSUME batches' = batches, NEW c \in Cameras, NEW n \in Objects,
         n \in seen'[c] => n \in seen[c]
  PROVE  /\ Gone(c, n, 0) => Gone(c, n, 0)'
         /\ Order(c, n) /\ (tracked'[c][n] # "absent" => tracked[c][n] # "absent")
              => Order(c, n)'
<1>1. \A i : (In(c, n, i)' <=> In(c, n, i)) /\ (Out(c, n, i)' <=> Out(c, n, i))
  BY DEF In, Out
<1>2. \A j : Gone(c, n, j) => Gone(c, n, j)'
  BY <1>1 DEF Gone
<1>3. ASSUME Order(c, n), tracked'[c][n] # "absent" => tracked[c][n] # "absent"
      PROVE  Order(c, n)'
  BY <1>1, <1>2, <1>3 DEF Order
<1> QED
  BY <1>2, <1>3
(* Nothing happens to the life of an object. *)
SameLife(c, n) ==
  /\ tracked'[c][n] = tracked[c][n] /\ mail'[c][n] = mail[c][n]
  /\ inProcess'[c][n] = inProcess[c][n] /\ row'[c][n] = row[c][n]
  /\ finished'[c][n] = finished[c][n]

(* An object whose life is the same is in the same phase.                  *)
LEMMA Life ==
  ASSUME NEW c \in Cameras, NEW n \in Objects, SameLife(c, n)
  PROVE  /\ Phase(c, n) => Phase(c, n)'
         /\ Done(c, n)' <=> Done(c, n)
         /\ tracked'[c][n] # "absent" => tracked[c][n] # "absent"
<1>1. Quiet(c, n)' <=> Quiet(c, n)
  BY DEF SameLife, Quiet
<1>2. Flow(c, n)' <=> Flow(c, n)
  BY DEF SameLife, Flow
<1>3. Ending(c, n)' <=> Ending(c, n)
  BY DEF SameLife, Ending
<1> QED
  BY <1>1, <1>2, <1>3 DEF SameLife, Phase, Done

(* Ids that were not handed out before are still nowhere,                  *)
LEMMA StillUnborn ==
  ASSUME NEW c \in Cameras, NEW n \in Objects, used'[c] = used[c], SameLife(c, n),
         Gone(c, n, 0) => Gone(c, n, 0)'
  PROVE  Unborn(c, n) => Unborn(c, n)'
  BY DEF Unborn, SameLife

(* and a camera whose configuration is the same is still configured.       *)
LEMMA StillConfigured ==
  ASSUME NEW c \in Cameras,
         UNCHANGED <<configured, known, states, updates, orders>>,
         cleaning'[c] = cleaning[c], resized'[c] => resized[c],
         c \notin states => tracked'[c] = tracked[c],
         tracker[c] = "stopped" =>
           /\ tracker'[c] = "stopped" /\ (seen[c] = {} => seen'[c] = {})
           /\ (\A i \in 1..Len(batches) : batches[i][1] # c) =>
                \A i \in 1..Len(batches') : batches'[i][1] # c
  PROVE  Configured(c) => Configured(c)'
  BY DEF Configured

(* A frame of the detect process brings old ids it still tracks and new    *)
(* ones.                                                                   *)
LEMMA FrameStep ==
  ASSUME TypeOK, Births, NEW d \in Cameras, Frame(d),
         NEW c \in Cameras, NEW n \in Objects
  PROVE  /\ Unborn(c, n)'
         /\ Order(c, n) => Order(c, n)'
         /\ NoReturn(c, n) => NoReturn(c, n)'
         /\ Phase(c, n) => Phase(c, n)'
<1>0. /\ batches \in Seq(Cameras \X SUBSET Objects)
      /\ seen \in [Cameras -> SUBSET Objects] /\ used \in [Cameras -> Nat]
      /\ n \in Nat
  BY Constants DEF TypeOK
<1>1. PICK stay \in SUBSET seen[d] : \E new \in {{}, {used[d] + 1}} :
        /\ new \subseteq Objects
        /\ used' = [used EXCEPT ![d] = IF new = {} THEN @ ELSE @ + 1]
        /\ seen' = [seen EXCEPT ![d] = stay \cup new]
        /\ batches' = IF Len(batches) < MaxBatches
                        THEN Append(batches, <<d, stay \cup new>>) ELSE batches
  BY DEF Frame
<1>2. PICK new \in {{}, {used[d] + 1}} :
        /\ new \subseteq Objects
        /\ used' = [used EXCEPT ![d] = IF new = {} THEN @ ELSE @ + 1]
        /\ seen' = [seen EXCEPT ![d] = stay \cup new]
        /\ batches' = IF Len(batches) < MaxBatches
                        THEN Append(batches, <<d, stay \cup new>>) ELSE batches
  BY <1>1
<1>3. <<d, stay \cup new>> \in Cameras \X SUBSET Objects
  BY <1>0, <1>2
<1>4. Len(batches) \in Nat
  BY <1>0, Elements
<1>5. /\ Len(batches') \in {Len(batches), Len(batches) + 1}
      /\ \A i \in 1..Len(batches) : batches'[i] = batches[i]
      /\ Len(batches') = Len(batches) + 1 =>
           batches'[Len(batches) + 1] = <<d, stay \cup new>>
  BY <1>0, <1>2, <1>3, <1>4, Appended
<1>6. /\ \A i \in 1..Len(batches) :
           (In(c, n, i)' <=> In(c, n, i)) /\ (Out(c, n, i)' <=> Out(c, n, i))
      /\ Len(batches') = Len(batches) + 1 =>
           \A k : k = Len(batches) + 1 =>
             /\ In(c, n, k)' => c = d /\ n \in seen'[c]
             /\ Out(c, n, k)' => c = d /\ n \notin seen'[c]
  <2>1. seen'[d] = stay \cup new
    BY <1>0, <1>2
  <2>2. ASSUME Len(batches') = Len(batches) + 1, NEW k, k = Len(batches) + 1
        PROVE  /\ In(c, n, k)' => c = d /\ n \in seen'[c]
               /\ Out(c, n, k)' => c = d /\ n \notin seen'[c]
    <3>1. batches'[k] = <<d, seen'[d]>>
      BY <1>5, <2>1, <2>2
    <3> QED
      BY <3>1 DEF In, Out
  <2>3. \A i \in 1..Len(batches) :
          (In(c, n, i)' <=> In(c, n, i)) /\ (Out(c, n, i)' <=> Out(c, n, i))
    BY <1>5 DEF In, Out
  <2> QED
    BY <2>2, <2>3
<1>7. SameLife(c, n) /\ UNCHANGED <<enabled, prev>>
  BY DEF Frame, SameLife, userVars, objectVars, eventVars
<1>8. Phase(c, n) => Phase(c, n)'
  BY <1>7, Life
<1>9. CASE c = d /\ n \in new
  <2>1. n = used[c] + 1 /\ used'[c] = n
    BY <1>0, <1>2, <1>9
  <2>2. /\ Gone(c, n, 0) /\ tracked[c][n] = "absent" /\ row[c][n] = "none"
        /\ n > used[c]
    BY <1>0, <2>1 DEF Births, Unborn
  <2>3. Unborn(c, n)'
    BY <1>0, <2>1 DEF Unborn
  <2>4. NoReturn(c, n)'
    BY <1>7, <2>2 DEF NoReturn, Done, SameLife
  <2>5. \A i \in 1..Len(batches) : ~In(c, n, i)
    BY <1>4, <2>2 DEF Gone
  <2>6. Order(c, n)'
    BY <1>4, <1>5, <1>6, <1>7, <2>2, <2>5 DEF Order, SameLife
  <2> QED
    BY <1>8, <2>3, <2>4, <2>6
<1>10. CASE ~(c = d /\ n \in new)
  <2>1. (n \in seen'[c] => n \in seen[c]) /\ used'[c] >= used[c]
    BY <1>0, <1>2, <1>10
  <2>2. ASSUME NEW j \in Nat, Gone(c, n, j) PROVE Gone(c, n, j)'
    <3>1. n \notin seen'[c]
      BY <2>1, <2>2 DEF Gone
    <3>2. ASSUME NEW k \in 1..Len(batches'), k > j PROVE ~In(c, n, k)'
      <4>1. CASE k \in 1..Len(batches)
        BY <1>6, <2>2, <3>2, <4>1 DEF Gone
      <4>2. CASE k \notin 1..Len(batches)
        <5>1. k = Len(batches) + 1 /\ Len(batches') = k
          BY <1>4, <1>5, <4>2
        <5> QED
          BY <1>6, <3>1, <5>1
      <4> QED
        BY <4>1, <4>2
    <3> QED
      BY <3>1, <3>2 DEF Gone
  <2>3. Unborn(c, n)'
    <3>1. n > used'[c] => n > used[c]
      BY <1>0, <1>2, <2>1
    <3> QED
      BY <1>7, <2>2, <3>1 DEF Births, Unborn, SameLife
  <2>4. NoReturn(c, n) => NoReturn(c, n)'
    BY <1>7, <2>2, Life DEF NoReturn
  <2>5. ASSUME Order(c, n) PROVE Order(c, n)'
    <3>1. ASSUME NEW j \in 1..Len(batches'), Out(c, n, j)',
                 \/ tracked[c][n] # "absent"
                 \/ \E i \in 1..Len(batches') : i < j /\ In(c, n, i)'
          PROVE  Gone(c, n, j)'
      <4>1. CASE j \in 1..Len(batches)
        <5>1. Out(c, n, j)
          BY <1>6, <3>1, <4>1
        <5>2. (\E i \in 1..Len(batches') : i < j /\ In(c, n, i)') =>
                \E i \in 1..Len(batches) : i < j /\ In(c, n, i)
          BY <1>4, <1>5, <1>6, <4>1
        <5>3. Gone(c, n, j)
          BY <2>5, <3>1, <4>1, <5>1, <5>2 DEF Order
        <5> QED
          BY <2>2, <5>3, <4>1
      <4>2. CASE j \notin 1..Len(batches)
        <5>1. j = Len(batches) + 1 /\ Len(batches') = j
          BY <1>4, <1>5, <3>1, <4>2
        <5>2. n \notin seen'[c]
          BY <1>6, <3>1, <5>1
        <5>3. \A k \in 1..Len(batches') : ~(k > j)
          BY <1>4, <5>1
        <5> QED
          BY <5>2, <5>3 DEF Gone
      <4> QED
        BY <4>1, <4>2
    <3> QED
      BY <1>7, <3>1 DEF Order, SameLife
  <2> QED
    BY <1>8, <2>3, <2>4, <2>5
<1> QED
  BY <1>9, <1>10

(* Only a detect process that runs puts batches on the queue.              *)
LEMMA FrameConfigured ==
  ASSUME TypeOK, NEW d \in Cameras, Frame(d), NEW c \in Cameras
  PROVE  Configured(c) => Configured(c)'
<1>1. batches \in Seq(Cameras \X SUBSET Objects) /\ seen \in [Cameras -> SUBSET Objects]
  BY DEF TypeOK
<1>2. /\ tracker[d] = "on"
      /\ UNCHANGED <<configured, known, states, updates, orders, cleaning, resized,
                     tracked, tracker>>
  BY DEF Frame, userVars, objectVars
<1>3. ASSUME tracker[c] = "stopped"
      PROVE  /\ seen'[c] = seen[c]
             /\ (\A i \in 1..Len(batches) : batches[i][1] # c) =>
                  \A i \in 1..Len(batches') : batches'[i][1] # c
  <2>1. c # d
    BY <1>2, <1>3
  <2>2. \E s \in SUBSET Objects :
          /\ seen' = [seen EXCEPT ![d] = s]
          /\ batches' = batches \/ batches' = Append(batches, <<d, s>>)
    <3>1. used[d] + 1 \in Objects \/ TRUE
      OBVIOUS
    <3> QED
      BY <1>1 DEF Frame
  <2>3. PICK s \in SUBSET Objects :
          /\ seen' = [seen EXCEPT ![d] = s]
          /\ batches' = batches \/ batches' = Append(batches, <<d, s>>)
    BY <2>2
  <2>4. <<d, s>> \in Cameras \X SUBSET Objects /\ Len(batches) \in Nat
    BY <1>1, Elements
  <2>5. CASE batches' = Append(batches, <<d, s>>)
    <3>1. /\ Len(batches') = Len(batches) + 1 /\ batches'[Len(batches) + 1] = <<d, s>>
          /\ \A i \in 1..Len(batches) : batches'[i] = batches[i]
      BY <1>1, <2>4, <2>5, Appended
    <3> QED
      BY <2>1, <2>3, <2>4, <3>1
  <2> QED
    BY <1>1, <2>1, <2>3, <2>5
<1> QED
  BY <1>2, <1>3, StillConfigured
(* A step that changes neither the frames nor the life of any object. *)
Follows(c) == enabled[c] \/ prev[c]

(* A step that leaves the objects and the queues alone.                    *)
LEMMA Idle ==
  ASSUME Births, Undisturbed,
         UNCHANGED <<used, batches, prev, tracked, mail, inProcess, row, finished>>,
         \A c \in Cameras : disturbed[c] => disturbed'[c],
         \A c \in Cameras, n \in Objects : n \in seen'[c] => n \in seen[c],
         \A c \in Cameras : Configured(c) /\ ~disturbed'[c] =>
           /\ Configured(c)'
           /\ enabled'[c] => Follows(c) \/ \A n \in Objects : Gone(c, n, 0)
  PROVE  Births' /\ Undisturbed'
<1>1. \A c \in Cameras, n \in Objects : SameLife(c, n)
  BY DEF SameLife
<1>2. \A c \in Cameras, n \in Objects :
        (Gone(c, n, 0) => Gone(c, n, 0)') /\ (Order(c, n) => Order(c, n)')
  BY OrderKept
<1>3. ASSUME NEW c \in Cameras, NEW n \in Objects PROVE Unborn(c, n)'
  BY <1>1, <1>2, StillUnborn DEF Births
<1>4. ASSUME NEW c \in Cameras, ~disturbed'[c]
      PROVE  /\ Configured(c)'
             /\ \A n \in Objects : Order(c, n)' /\ NoReturn(c, n)' /\ Phase(c, n)'
  <2>1. Configured(c) /\ \A n \in Objects : Order(c, n) /\ NoReturn(c, n) /\ Phase(c, n)
    BY <1>4 DEF Undisturbed
  <2>2. ASSUME NEW n \in Objects PROVE NoReturn(c, n)'
    <3>1. Done(c, n)' => Done(c, n)
      BY <1>1, Life
    <3>2. enabled'[c] \/ prev'[c] => Follows(c) \/ Gone(c, n, 0)
      BY <1>4, <2>1 DEF Follows
    <3> QED
      BY <1>2, <2>1, <3>1, <3>2 DEF NoReturn, Follows
  <2> QED
    BY <1>1, <1>2, <1>4, <2>1, <2>2, Life
<1> QED
  BY <1>3, <1>4 DEF Births, Undisturbed

(* A detect process that notices that it is disabled may drop what it      *)
(* tracks.                                                                 *)
LEMMA NoticeStep ==
  ASSUME TypeOK, Births, Undisturbed, NEW d \in Cameras, NoticeEnabled(d)
  PROVE  Births' /\ Undisturbed'
<1>1. /\ UNCHANGED <<configured, enabled, known, resized, used, batches, updates,
                     orders, states, prev, tracked, mail, inProcess, row, cleaning,
                     finished, disturbed>>
      /\ tracker[d] # "stopped"
  BY DEF NoticeEnabled, userVars, objectVars, eventVars
<1>2. /\ tracker' = [tracker EXCEPT ![d] = IF enabled[d] THEN "on" ELSE "off"]
      /\ seen' = seen \/ seen' = [seen EXCEPT ![d] = {}]
  BY DEF NoticeEnabled
<1>3. \A c \in Cameras : /\ tracker[c] = "stopped" => tracker'[c] = "stopped"
                         /\ seen'[c] = {} \/ seen'[c] = seen[c]
  BY <1>1, <1>2 DEF TypeOK
<1>4. \A c \in Cameras : Configured(c) => Configured(c)'
  BY <1>1, <1>3, StillConfigured
<1> QED
  BY <1>1, <1>3, <1>4, Idle DEF Follows

(* The camera maintainer starts processes that track nothing and stops     *)
(* others.                                                                 *)
LEMMA MaintainStep ==
  ASSUME TypeOK, Births, Undisturbed, MaintainCamera
  PROVE  Births' /\ Undisturbed'
<1> DEFINE d == Head(orders)[2]
           add == Head(orders)[1] = "add"
<1>1. UNCHANGED <<configured, enabled, resized, used, batches, updates, states, prev,
                  tracked, mail, inProcess, row, cleaning, finished, disturbed>>
  BY DEF MaintainCamera, userVars, objectVars, eventVars
<1>2. /\ orders # <<>> /\ orders' = Tail(orders)
      /\ known' = [known EXCEPT ![d] = add]
      /\ tracker' = [tracker EXCEPT ![d] = IF add THEN "on" ELSE "stopped"]
      /\ seen' = [seen EXCEPT ![d] = {}]
  BY DEF MaintainCamera
<1>3. orders \in Seq(Updates)
  BY DEF TypeOK
<1>4. /\ Len(orders) \in Nat /\ Len(orders) >= 1 /\ Head(orders) = orders[1]
      /\ Head(orders) \in Updates /\ Len(orders') = Len(orders) - 1
      /\ \A i \in 1..(Len(orders) - 1) : orders'[i] = orders[i + 1]
  BY <1>2, <1>3, Elements, Shifted
<1>5. Head(orders) = <<IF add THEN "add" ELSE "remove", d>> /\ d \in Cameras
  BY <1>4 DEF Updates
<1> HIDE DEF d, add
<1>6. \A c \in Cameras : seen'[c] = {} \/ seen'[c] = seen[c]
  BY <1>2 DEF TypeOK
<1>7. ASSUME NEW c \in Cameras, Configured(c) PROVE Configured(c)'
  <2>1. \A i \in 1..Len(orders') : \E j \in 1..Len(orders) : orders'[i] = orders[j]
    BY <1>4
  <2>2. c = d => add
    BY <1>4, <1>5, <1>7 DEF Configured
  <2>3. ~configured[c] => c # d
    <3>1. 1 \in 1..Len(orders)
      BY <1>4
    <3> QED
      BY <1>4, <1>5, <1>7, <2>2, <3>1 DEF Configured
  <2>4. known'[c] \in {known[c], TRUE} /\ (~configured[c] => tracker'[c] = tracker[c])
    BY <1>2, <1>5, <2>2, <2>3 DEF TypeOK
  <2>5. \A u : (\A i \in 1..Len(orders) : orders[i] # u)
                 => \A i \in 1..Len(orders') : orders'[i] # u
    BY <2>1
  <2> QED
    BY <1>1, <1>6, <1>7, <2>4, <2>5 DEF Configured
<1> QED
  BY <1>1, <1>6, <1>7, Idle DEF Follows

(* No batch, and no report.                                                *)
LEMMA QuietStep ==
  ASSUME TypeOK, Births, Undisturbed, NoFrame \/ NoneFinished
  PROVE  Births' /\ Undisturbed'
<1>1. UNCHANGED <<configured, enabled, known, resized, tracker, seen, used, batches,
                  updates, orders, states, prev, tracked, mail, inProcess, row,
                  cleaning, finished, disturbed>>
  BY DEF NoFrame, NoneFinished, userVars, trackerVars, objectVars, eventVars
<1>2. \A c \in Cameras : Configured(c) => Configured(c)'
  BY <1>1, StillConfigured
<1> QED
  BY <1>1, <1>2, Idle DEF Follows

(* The batch of a camera that is not processed is dropped.                 *)
LEMMA SkipStep ==
  ASSUME TypeOK, Births, Undisturbed, SkipFrame
  PROVE  Births' /\ Undisturbed'
<1>1. /\ UNCHANGED <<configured, enabled, known, resized, tracker, seen, used, updates,
                     orders, states, prev, tracked, mail, inProcess, row, cleaning,
                     finished, disturbed>>
      /\ batches # <<>> /\ batches' = Tail(batches)
  BY DEF SkipFrame, userVars, trackerVars, objectVars, eventVars
<1>2. \A c \in Cameras, n \in Objects : SameLife(c, n)
  BY <1>1 DEF SameLife
<1>3. \A c \in Cameras, n \in Objects :
        (Gone(c, n, 0) => Gone(c, n, 0)') /\ (Order(c, n) => Order(c, n)')
  BY <1>1, OrderTaken
<1>4. \A i \in 1..Len(batches') : \E j \in 1..Len(batches) : batches'[i] = batches[j]
  <2>1. batches \in Seq(Cameras \X SUBSET Objects)
    BY DEF TypeOK
  <2>2. /\ Len(batches) \in Nat /\ Len(batches') = Len(batches) - 1
        /\ \A i \in 1..(Len(batches) - 1) : batches'[i] = batches[i + 1]
    BY <1>1, <2>1, Elements, Shifted
  <2> QED
    BY <2>2
<1>5. \A c \in Cameras : Configured(c) => Configured(c)'
  BY <1>1, <1>4, StillConfigured
<1>6. \A c \in Cameras, n \in Objects : NoReturn(c, n) => NoReturn(c, n)'
  BY <1>1, <1>2, <1>3, Life DEF NoReturn
<1>7. \A c \in Cameras, n \in Objects : Unborn(c, n) => Unborn(c, n)'
  BY <1>1, <1>2, <1>3, StillUnborn
<1> QED
  BY <1>1, <1>2, <1>3, <1>5, <1>6, <1>7, Life DEF Births, Undisturbed
(* Updates and orders that are sent keep those that wait. *)
LEMMA Sent ==
  ASSUME NEW q \in Seq(Updates), NEW u \in Updates, NEW w, w # u,
         \A i \in 1..Len(q) : q[i] # w
  PROVE  \A i \in 1..Len(Append(q, u)) : Append(q, u)[i] # w
<1>1. Len(q) \in Nat
  BY Elements
<1>2. /\ Len(Append(q, u)) = Len(q) + 1 /\ Append(q, u)[Len(q) + 1] = u
      /\ \A i \in 1..Len(q) : Append(q, u)[i] = q[i]
  BY Appended
<1> QED
  BY <1>1, <1>2

(* A camera that is disabled ends its objects when the updates are         *)
(* applied.                                                                *)
LEMMA DisableStep ==
  ASSUME TypeOK, Births, Undisturbed, NEW d \in Cameras, DisableCamera(d)
  PROVE  Births' /\ Undisturbed'
<1>1. /\ UNCHANGED <<configured, known, resized, tracker, seen, used, batches,
                     updates, orders, states, prev, tracked, mail, inProcess, row,
                     cleaning, finished, disturbed>>
      /\ enabled' = [enabled EXCEPT ![d] = FALSE]
  BY DEF DisableCamera, trackerVars, objectVars, eventVars
<1>2. \A c \in Cameras : enabled'[c] => enabled[c]
  BY <1>1 DEF TypeOK
<1>3. \A c \in Cameras : Configured(c) => Configured(c)'
  BY <1>1, StillConfigured
<1> QED
  BY <1>1, <1>2, <1>3, Idle DEF Follows

(* A camera is enabled: one that was disabled just before is disturbed.    *)
LEMMA EnableStep ==
  ASSUME TypeOK, Births, Undisturbed, NEW d \in Cameras, EnableCamera(d)
  PROVE  Births' /\ Undisturbed'
<1>1. /\ UNCHANGED <<configured, known, resized, tracker, seen, used, batches,
                     updates, orders, states, prev, tracked, mail, inProcess, row,
                     cleaning, finished>>
      /\ enabled' = [enabled EXCEPT ![d] = TRUE]
      /\ disturbed' = [disturbed EXCEPT ![d] = @ \/ Hasty(d)]
  BY DEF EnableCamera, trackerVars, objectVars, eventVars
<1>2. /\ \A c \in Cameras : disturbed[c] => disturbed'[c]
      /\ ~disturbed'[d] => ~Hasty(d)
      /\ \A c \in Cameras : enabled'[c] => enabled[c] \/ c = d
  <2>1. disturbed \in [Cameras -> BOOLEAN] /\ enabled \in [Cameras -> BOOLEAN]
    BY DEF TypeOK
  <2> QED
    BY <1>1, <2>1, Zenon
<1>3. \A c \in Cameras : Configured(c) => Configured(c)'
  BY <1>1, StillConfigured
<1>4. ASSUME ~disturbed'[d], ~Follows(d), NEW n \in Objects PROVE Gone(d, n, 0)
  BY <1>2, <1>4 DEF Hasty, Follows, Gone, In
<1> QED
  BY <1>1, <1>2, <1>3, <1>4, Idle DEF Follows

(* Cameras that are removed with objects of theirs about are disturbed,    *)
LEMMA RemoveStep ==
  ASSUME TypeOK, Births, Undisturbed, NEW d \in Cameras, RemoveCamera(d)
  PROVE  Births' /\ Undisturbed'
<1>1. /\ UNCHANGED <<known, enabled, resized, tracker, seen, used, batches, states,
                     prev, tracked, mail, inProcess, row, finished>>
      /\ configured' = [configured EXCEPT ![d] = FALSE]
      /\ cleaning' = [cleaning EXCEPT ![d] = TRUE]
      /\ disturbed' = [disturbed EXCEPT ![d] = TRUE]
      /\ updates' = Append(updates, <<"remove", d>>)
      /\ orders' = Append(orders, <<"remove", d>>)
  BY DEF RemoveCamera, trackerVars, objectVars, eventVars
<1>2. updates \in Seq(Updates) /\ orders \in Seq(Updates) /\ <<"remove", d>> \in Updates
  BY DEF TypeOK, Updates
<1>3. \A c \in Cameras : /\ disturbed[c] => disturbed'[c]
                         /\ ~disturbed'[c] => c # d
  BY <1>1 DEF TypeOK
<1>4. ASSUME NEW c \in Cameras, Configured(c), c # d PROVE Configured(c)'
  <2>1. configured'[c] = configured[c] /\ cleaning'[c] = cleaning[c]
    BY <1>1, <1>4 DEF TypeOK
  <2>2. \A w \in {<<"add", c>>, <<"remove", c>>} :
          /\ (\A i \in 1..Len(updates) : updates[i] # w)
               => \A i \in 1..Len(updates') : updates'[i] # w
          /\ (\A i \in 1..Len(orders) : orders[i] # w)
               => \A i \in 1..Len(orders') : orders'[i] # w
    BY <1>1, <1>2, <1>4, Sent
  <2> QED
    BY <1>1, <1>4, <2>1, <2>2 DEF Configured
<1> QED
  BY <1>1, <1>3, <1>4, Idle DEF Follows

(* one that is added has nothing left of before or is disturbed,           *)
LEMMA AddStep ==
  ASSUME TypeOK, Births, Undisturbed, NEW d \in Cameras, AddCamera(d)
  PROVE  Births' /\ Undisturbed'
<1>1. /\ UNCHANGED <<known, resized, tracker, seen, used, batches, states, prev,
                     tracked, mail, inProcess, row, cleaning, finished, disturbed>>
      /\ ~configured[d]
      /\ configured' = [configured EXCEPT ![d] = TRUE]
      /\ enabled' = [enabled EXCEPT ![d] = TRUE]
      /\ updates' = Append(updates, <<"add", d>>)
      /\ orders' = Append(orders, <<"add", d>>)
  BY DEF AddCamera, trackerVars, objectVars, eventVars
<1>2. updates \in Seq(Updates) /\ orders \in Seq(Updates) /\ <<"add", d>> \in Updates
  BY DEF TypeOK, Updates
<1>3. \A c \in Cameras : /\ enabled'[c] => enabled[c] \/ c = d
                         /\ c # d => configured'[c] = configured[c]
                         /\ configured'[d]
  BY <1>1 DEF TypeOK
<1>4. \A c \in Cameras : \A w \in {<<"add", c>>, <<"remove", c>>} :
        w # <<"add", d>> =>
          /\ (\A i \in 1..Len(updates) : updates[i] # w)
               => \A i \in 1..Len(updates') : updates'[i] # w
          /\ (\A i \in 1..Len(orders) : orders[i] # w)
               => \A i \in 1..Len(orders') : orders'[i] # w
  BY <1>1, <1>2, Sent
<1>5. ASSUME NEW c \in Cameras, Configured(c) PROVE Configured(c)'
  <2>1. /\ \A i \in 1..Len(updates') : updates'[i] # <<"remove", c>>
        /\ \A i \in 1..Len(orders') : orders'[i] # <<"remove", c>>
    BY <1>4, <1>5 DEF Configured
  <2>2. CASE c = d
    BY <1>1, <1>3, <1>5, <2>1, <2>2 DEF Configured
  <2>3. CASE c # d
    <3>1. /\ (\A i \in 1..Len(updates) : updates[i] # <<"add", c>>)
               => \A i \in 1..Len(updates') : updates'[i] # <<"add", c>>
          /\ (\A i \in 1..Len(orders) : orders[i] # <<"add", c>>)
               => \A i \in 1..Len(orders') : orders'[i] # <<"add", c>>
      BY <1>4, <2>3
    <3> QED
      BY <1>1, <1>3, <1>5, <2>1, <2>3, <3>1 DEF Configured
  <2> QED
    BY <2>2, <2>3
<1>6. Configured(d) => \A n \in Objects : Gone(d, n, 0)
  BY <1>1 DEF Configured, Gone, In
<1> QED
  BY <1>1, <1>3, <1>5, <1>6, Idle DEF Follows

(* and one that is resized is disturbed.                                   *)
LEMMA ResizeStep ==
  ASSUME TypeOK, Births, Undisturbed, NEW d \in Cameras, ResizeCamera(d)
  PROVE  Births' /\ Undisturbed'
<1>1. /\ UNCHANGED <<configured, known, enabled, tracker, used, batches, updates,
                     orders, states, prev, tracked, mail, inProcess, row, cleaning,
                     finished>>
      /\ resized' = [resized EXCEPT ![d] = TRUE]
      /\ seen' = [seen EXCEPT ![d] = {}]
      /\ disturbed' = [disturbed EXCEPT ![d] = TRUE]
  BY DEF ResizeCamera, objectVars, eventVars
<1>2. \A c \in Cameras : /\ disturbed[c] => disturbed'[c]
                         /\ ~disturbed'[c] => c # d
                         /\ seen'[c] = {} \/ seen'[c] = seen[c]
                         /\ c # d => resized'[c] = resized[c]
  BY <1>1 DEF TypeOK
<1>3. \A c \in Cameras : Configured(c) /\ c # d => Configured(c)'
  BY <1>1, <1>2, StillConfigured
<1> QED
  BY <1>1, <1>2, <1>3, Idle DEF Follows

(* Only disturbed cameras are cleaned.                                     *)
LEMMA CleanStep ==
  ASSUME TypeOK, Births, Undisturbed, NEW d \in Cameras, CleanCamera(d)
  PROVE  Births' /\ Undisturbed'
<1>1. /\ UNCHANGED <<configured, enabled, known, resized, tracker, seen, used, batches,
                     updates, orders, states, prev, tracked, mail, inProcess,
                     finished, disturbed>>
      /\ cleaning[d]
      /\ cleaning' = [cleaning EXCEPT ![d] = FALSE]
      /\ row' = [row EXCEPT ![d] = [n \in Objects |-> "none"]]
  BY DEF CleanCamera, userVars, trackerVars, objectVars
<1>2. /\ \A n \in Objects : row'[d][n] = "none"
      /\ \A c \in Cameras : c # d => row'[c] = row[c] /\ cleaning'[c] = cleaning[c]
  BY <1>1 DEF TypeOK
<1>3. \A c \in Cameras, n \in Objects : c # d => SameLife(c, n)
  BY <1>1, <1>2 DEF SameLife
<1>4. \A c \in Cameras, n \in Objects :
        (Gone(c, n, 0) => Gone(c, n, 0)') /\ (Order(c, n) => Order(c, n)')
  BY <1>1, OrderKept
<1>5. \A c \in Cameras, n \in Objects : Unborn(c, n) => Unborn(c, n)'
  BY <1>1, <1>2, <1>4 DEF Unborn
<1>6. ASSUME NEW c \in Cameras, ~disturbed'[c]
      PROVE  /\ Configured(c)'
             /\ \A n \in Objects : Order(c, n)' /\ NoReturn(c, n)' /\ Phase(c, n)'
  <2>1. Configured(c) /\ \A n \in Objects : Order(c, n) /\ NoReturn(c, n) /\ Phase(c, n)
    BY <1>1, <1>6 DEF Undisturbed
  <2>2. c # d
    BY <1>1, <2>1 DEF Configured
  <2>3. Configured(c)'
    BY <1>1, <1>2, <2>1, <2>2, StillConfigured
  <2>4. \A n \in Objects : NoReturn(c, n)'
    BY <1>1, <1>3, <1>4, <2>1, <2>2, Life DEF NoReturn
  <2> QED
    BY <1>3, <1>4, <2>1, <2>2, <2>3, <2>4, Life
<1> QED
  BY <1>5, <1>6 DEF Births, Undisturbed

(* After a restart there is nothing under way, and no row is open.         *)
LEMMA RestartStep ==
  ASSUME TypeOK, Births, Restart
  PROVE  Births' /\ Undisturbed' /\ processor' = "config"
<1>1. /\ UNCHANGED <<configured, enabled, used>>
      /\ batches' = <<>> /\ updates' = <<>> /\ orders' = <<>> /\ processor' = "config"
      /\ known' = configured /\ states' = {c \in Cameras : configured[c]}
  BY DEF Restart
<1>2. \A c \in Cameras :
        /\ ~resized'[c] /\ seen'[c] = {} /\ ~cleaning'[c]
        /\ ~configured[c] => tracker'[c] = "stopped"
  BY DEF Restart, All
<1>3. \A c \in Cameras, n \in Objects :
        /\ tracked'[c][n] = "absent" /\ mail'[c][n] = <<>>
        /\ inProcess'[c][n] = None /\ finished'[c][n] = 0
        /\ row[c][n] = "none" => row'[c][n] = "none"
  BY DEF Restart, All, PerObject
<1>4. Len(batches') = 0 /\ Len(updates') = 0 /\ Len(orders') = 0
  BY <1>1
<1>5. \A c \in Cameras, n \in Objects : Gone(c, n, 0)'
  BY <1>2, <1>4 DEF Gone
<1>6. \A c \in Cameras : Configured(c)'
  BY <1>1, <1>2, <1>3, <1>4 DEF Configured
<1>7. \A c \in Cameras, n \in Objects : Order(c, n)' /\ NoReturn(c, n)' /\ Phase(c, n)'
  BY <1>3, <1>4, <1>5 DEF Order, NoReturn, Phase, Quiet
<1>8. \A c \in Cameras, n \in Objects : Unborn(c, n)'
  BY <1>1, <1>3, <1>5 DEF Births, Unborn
<1> QED
  BY <1>1, <1>6, <1>7, <1>8 DEF Births, Undisturbed
-----------------------------------------------------------------------------
(* Updates *)

(* The last of the places where something holds in a sequence.             *)
LEMMA Latest ==
  ASSUME NEW N \in Nat, NEW S \in SUBSET (1..N), S # {}
  PROVE  \E i \in S : \A j \in S : j <= i
<1> DEFINE R == {p \in Nat \X Nat : p[1] < p[2]}
           T == {N - i : i \in S}
<1>1. IsWellFoundedOn(R, Nat)
  BY NatLessThanWellFounded DEF OpToRel
<1>2. T \subseteq Nat /\ T # {}
  <2>1. \A i \in S : N - i \in Nat
    OBVIOUS
  <2>2. PICK i \in S : TRUE
    OBVIOUS
  <2>3. N - i \in T
    BY <2>2
  <2> QED
    BY <2>1, <2>3
<1>3. \E x \in T : \A y \in T : ~(<<y, x>> \in R)
  <2> HIDE DEF R, T
  <2> QED
    BY <1>1, <1>2, WFMin
<1>4. PICK x \in T : \A y \in T : ~(<<y, x>> \in R)
  BY <1>3
<1>5. PICK i \in S : x = N - i
  <2>1. x \in {N - i : i \in S}
    BY <1>4
  <2> QED
    BY <2>1
<1>6. ASSUME NEW j \in S PROVE j <= i
  <2>1. N - j \in T /\ N - j \in Nat /\ N - i \in Nat
    OBVIOUS
  <2>2. ~(N - j < N - i)
    BY <1>4, <1>5, <2>1
  <2> QED
    BY <2>2
<1> QED
  BY <1>6

(* The last update about a camera of which none waits that removes it.     *)
LEMMA Drained ==
  ASSUME TypeOK, NEW c \in Cameras, Configured(c)
  PROVE  /\ c \notin Touched("remove")
         /\ c \in Touched("add") => DrainedConfig[c] /\ c \notin states
         /\ c \notin Touched("add") => DrainedConfig[c] = known[c]
<1>1. updates \in Seq(Updates)
  BY DEF TypeOK
<1>2. /\ Len(updates) \in Nat
      /\ \A i \in 1..Len(updates) : updates[i] \in {"add", "remove"} \X Cameras
  BY <1>1, Elements DEF Updates
<1>3. c \notin Touched("remove")
  BY DEF Touched, Configured
<1>4. c \in Touched("add") => c \notin states
  BY DEF Touched, Configured
<1>5. ASSUME c \in Touched("add") PROVE DrainedConfig[c]
  <2> DEFINE mine == {i \in 1..Len(updates) : updates[i][2] = c}
  <2>1. PICK k \in 1..Len(updates) : updates[k] = <<"add", c>>
    BY <1>5 DEF Touched
  <2>2. mine \subseteq 1..Len(updates) /\ mine # {}
    BY <2>1
  <2>3. \A i \in mine : updates[i][1] = "add"
    <3>1. ASSUME NEW i \in mine PROVE updates[i][1] = "add"
      <4>1. updates[i] \in {"add", "remove"} \X Cameras /\ updates[i] # <<"remove", c>>
        BY <1>2 DEF Configured
      <4> QED
        BY <4>1
    <3> QED
      BY <3>1
  <2>4. \E i \in mine : \A j \in mine : j <= i
    <3> HIDE DEF mine
    <3> QED
      BY <1>2, <2>2, Latest
  <2>5. (CHOOSE i \in mine : \A j \in mine : j <= i) \in mine
    <3> HIDE DEF mine
    <3> QED
      BY <2>4
  <2>6. LastUpdate(c) = "add"
    BY <2>3, <2>5 DEF LastUpdate
  <2> QED
    BY <1>5, <2>6 DEF DrainedConfig
<1>6. c \notin Touched("add") => DrainedConfig[c] = known[c]
  BY <1>3 DEF DrainedConfig
<1> QED
  BY <1>3, <1>4, <1>5, <1>6

(* The thread only dies on cameras that are disturbed.                     *)
LEMMA FailStep ==
  ASSUME TypeOK, Births, Undisturbed, ProcessorSurvives, FailToAdd
  PROVE  Births' /\ Undisturbed' /\ ProcessorSurvives'
<1>1. /\ UNCHANGED <<configured, enabled, resized, tracker, seen, used, batches,
                     orders, states, prev, tracked, mail, inProcess, row, cleaning,
                     finished, disturbed>>
      /\ known' = DrainedConfig /\ updates' = <<>>
  BY DEF FailToAdd, userVars, trackerVars, objectVars, eventVars
<1>2. ASSUME NEW c \in Cameras, Configured(c) PROVE Configured(c)'
  <2>1. known[c] => known'[c]
    BY <1>1, <1>2, Drained
  <2>2. Len(updates') = 0
    BY <1>1
  <2> QED
    BY <1>1, <1>2, <2>1, <2>2 DEF Configured
<1>3. \E c \in Cameras : disturbed[c]
  <2>1. PICK c \in Touched("add") : ~DrainedConfig[c]
    BY DEF FailToAdd
  <2>2. c \in Cameras
    BY DEF Touched
  <2>3. ~Configured(c)
    BY <2>1, <2>2, Drained
  <2> QED
    BY <2>2, <2>3 DEF Undisturbed
<1>4. ProcessorSurvives'
  BY <1>1, <1>3 DEF ProcessorSurvives
<1> QED
  BY <1>1, <1>2, <1>4, Idle DEF Follows
(* What the updates do to an object of a camera that is not disturbed:     *)
(* nothing, or the camera was disabled and the object's events are ended.  *)
ForcedToEnd(c, n) ==
  /\ tracked[c][n] = "active" /\ ~enabled[c] /\ ~prev'[c]
  /\ Ends(c, n)
  /\ inProcess'[c][n] = inProcess[c][n] /\ row'[c][n] = row[c][n]
  /\ finished'[c][n] = finished[c][n]

(* A drain leaves an object as it is or ends it by force.                  *)
LEMMA UpdatesApplied ==
  ASSUME TypeOK, ApplyUpdates, NEW c \in Cameras, Configured(c), NEW n \in Objects
  PROVE  /\ SameLife(c, n) \/ ForcedToEnd(c, n)
         /\ SameLife(c, n) =>
              /\ n \in kept[c] /\ tracked[c][n] = "active" => n \in kept'[c]
              /\ n \in takenBack'[c] <=> n \in takenBack[c]
         /\ prev'[c] => Follows(c)
<1> DEFINE fresh == Touched("add")
           gone == Touched("remove")
<1>1. /\ states' = (states \cup fresh) \ gone /\ known' = DrainedConfig
      /\ prev' = [d \in Cameras |->
                    IF d \in states' /\ known'[d] THEN enabled[d] ELSE prev[d]]
      /\ tracked' = [d \in Cameras |->
                       IF d \in fresh \cup gone THEN [k \in Objects |-> "absent"]
                       ELSE IF Disabled(d) THEN Ended(d, Active(d))
                       ELSE tracked[d]]
      /\ UNCHANGED <<inProcess, row, finished>>
  BY DEF ApplyUpdates, eventVars
<1>2. PICK worth \in [Cameras -> SUBSET Objects] :
        /\ \A d \in Cameras :
             worth[d] \subseteq IF Disabled(d) THEN Active(d) ELSE {}
        /\ kept' = [d \in Cameras |->
                      IF d \in fresh \cup gone THEN {}
                      ELSE IF Disabled(d) THEN (kept[d] \ Active(d)) \cup worth[d]
                      ELSE kept[d]]
        /\ takenBack' = [d \in Cameras |-> takenBack[d] \ worth[d]]
        /\ mail' = [d \in Cameras |-> [k \in Objects |->
                      IF Disabled(d) /\ k \in Active(d)
                        THEN Append(mail[d][k],
                               [type |-> "end", kept |-> k \in worth[d], over |-> TRUE])
                        ELSE mail[d][k]]]
  BY DEF ApplyUpdates
<1>3. /\ c \notin gone
      /\ c \in fresh => DrainedConfig[c] /\ c \notin states
      /\ c \notin fresh => DrainedConfig[c] = known[c]
  BY Drained
<1>4. /\ prev'[c] = (IF c \in states' /\ known'[c] THEN enabled[c] ELSE prev[c])
      /\ tracked'[c] = (IF c \in fresh \cup gone THEN [k \in Objects |-> "absent"]
                        ELSE IF Disabled(c) THEN Ended(c, Active(c))
                        ELSE tracked[c])
      /\ kept'[c] = (IF c \in fresh \cup gone THEN {}
                     ELSE IF Disabled(c) THEN (kept[c] \ Active(c)) \cup worth[c]
                     ELSE kept[c])
      /\ mail'[c][n] = (IF Disabled(c) /\ n \in Active(c)
                          THEN Append(mail[c][n],
                                 [type |-> "end", kept |-> n \in worth[c], over |-> TRUE])
                          ELSE mail[c][n])
      /\ takenBack'[c] = takenBack[c] \ worth[c]
      /\ worth[c] \subseteq IF Disabled(c) THEN Active(c) ELSE {}
  BY <1>1, <1>2, Zenon
<1>5. n \in Active(c) <=> tracked[c][n] = "active"
  BY DEF Active
<1>6. prev'[c] => Follows(c)
  BY <1>4 DEF Follows
<1>7. CASE c \in fresh
  <2>1. ~Disabled(c) /\ tracked[c][n] = "absent"
    BY <1>3, <1>7 DEF Disabled, Configured
  <2>2. tracked'[c][n] = "absent" /\ mail'[c][n] = mail[c][n]
    BY <1>4, <1>7, <2>1
  <2>3. n \in takenBack'[c] <=> n \in takenBack[c]
    BY <1>4, <2>1
  <2> QED
    BY <1>1, <1>6, <2>1, <2>2, <2>3 DEF SameLife
<1>8. CASE c \notin fresh /\ ~Disabled(c)
  <2>1. tracked'[c] = tracked[c] /\ kept'[c] = kept[c] /\ mail'[c][n] = mail[c][n]
    BY <1>3, <1>4, <1>8
  <2>2. n \in takenBack'[c] <=> n \in takenBack[c]
    BY <1>4, <1>8
  <2> QED
    BY <1>1, <1>6, <2>1, <2>2 DEF SameLife
<1>9. CASE c \notin fresh /\ Disabled(c)
  <2>1. /\ tracked'[c][n] = (IF n \in Active(c) THEN "ended" ELSE tracked[c][n])
        /\ kept'[c] = (kept[c] \ Active(c)) \cup worth[c]
    BY <1>3, <1>4, <1>9 DEF Ended
  <2>2. worth[c] \subseteq Active(c)
    BY <1>4, <1>9
  <2>3. /\ n \in Active(c) =>
             /\ n \in kept'[c] <=> n \in worth[c]
             /\ n \in takenBack'[c] <=> n \in takenBack[c] /\ n \notin kept'[c]
        /\ n \notin Active(c) =>
             /\ n \in kept'[c] <=> n \in kept[c]
             /\ n \in takenBack'[c] <=> n \in takenBack[c]
    BY <1>4, <2>1, <2>2
  <2>4. ~enabled[c] /\ ~prev'[c]
    BY <1>1, <1>3, <1>4, <1>9 DEF Disabled
  <2>5. CASE n \in Active(c)
    <3>1. mail'[c][n] = Append(mail[c][n],
                          [type |-> "end", kept |-> n \in kept'[c], over |-> TRUE])
      <4>1. (n \in worth[c]) = (n \in kept'[c])
        BY <2>3, <2>5
      <4> QED
        BY <1>4, <1>9, <2>5, <4>1
    <3>2. ForcedToEnd(c, n)
      BY <1>1, <1>5, <2>1, <2>3, <2>4, <2>5, <3>1 DEF ForcedToEnd, Ends
    <3>3. ~SameLife(c, n)
      BY <1>5, <2>1, <2>5 DEF SameLife
    <3> QED
      BY <1>6, <3>2, <3>3
  <2>6. CASE n \notin Active(c)
    <3>1. tracked'[c][n] = tracked[c][n] /\ mail'[c][n] = mail[c][n]
      BY <1>4, <2>1, <2>6
    <3> QED
      BY <1>1, <1>6, <2>3, <2>6, <3>1 DEF SameLife
  <2> QED
    BY <2>5, <2>6
<1> QED
  BY <1>7, <1>8, <1>9

(* A message that is sent while no end is on its way. *)
LEMMA FlowSent ==
  ASSUME TypeOK, NEW c \in Cameras, NEW n \in Objects, NEW m \in Message,
         m.type # "start", m.over <=> m.type = "end",
         mail'[c][n] = Append(mail[c][n], m),
         inProcess'[c][n] = inProcess[c][n], row'[c][n] = row[c][n],
         Flow(c, n), ~Ending(c, n)
  PROVE  Flow(c, n)' /\ (Ending(c, n)' <=> m.type = "end")
<1>1. mail[c][n] \in Seq(Message)
  BY DEF TypeOK
<1>2. Len(mail[c][n]) \in Nat /\ (mail[c][n] = <<>> <=> Len(mail[c][n]) = 0)
  BY <1>1, Elements
<1>3. /\ Len(mail'[c][n]) = Len(mail[c][n]) + 1
      /\ \A i \in 1..Len(mail[c][n]) : mail'[c][n][i] = mail[c][n][i]
      /\ mail'[c][n][Len(mail[c][n]) + 1] = m
  BY <1>1, Appended
<1>4. \A i \in 1..Len(mail'[c][n]) :
        \/ i \in 1..Len(mail[c][n]) /\ mail'[c][n][i] = mail[c][n][i]
        \/ i = Len(mail'[c][n]) /\ mail'[c][n][i] = m
  BY <1>2, <1>3
<1>5. \A i \in 1..Len(mail[c][n]) : mail[c][n][i].type # "end"
  BY DEF Ending
<1>6. Ending(c, n)' <=> m.type = "end"
  BY <1>2, <1>3, <1>4, <1>5 DEF Ending
<1>7. \A i \in 1..Len(mail'[c][n]) :
        /\ mail'[c][n][i].type = "start" =>
             i = 1 /\ inProcess'[c][n] = None /\ row'[c][n] = "none"
        /\ mail'[c][n][i].over <=> mail'[c][n][i].type = "end"
        /\ mail'[c][n][i].type = "end" => i = Len(mail'[c][n])
  BY <1>4, <1>5 DEF Flow
<1>8. inProcess'[c][n] = None => mail'[c][n] # <<>> /\ mail'[c][n][1].type = "start"
  <2>1. ASSUME inProcess'[c][n] = None
        PROVE  mail'[c][n] # <<>> /\ mail'[c][n][1].type = "start"
    <3>1. mail[c][n] # <<>> /\ mail[c][n][1].type = "start"
      BY <2>1 DEF Flow
    <3>2. 1 \in 1..Len(mail[c][n]) /\ Len(mail'[c][n]) # 0
      BY <1>2, <1>3, <3>1
    <3>3. mail'[c][n][1] = mail[c][n][1]
      BY <1>3, <3>2
    <3>4. mail'[c][n] # <<>>
      BY <3>2
    <3> QED
      BY <3>1, <3>3, <3>4
  <2> QED
    BY <2>1
<1> QED
  BY <1>6, <1>7, <1>8 DEF Flow

(* The first message about an object. *)
LEMMA FlowStarted ==
  ASSUME NEW c \in Cameras, NEW n \in Objects, Quiet(c, n), row[c][n] = "none",
         mail'[c][n] =
           Append(mail[c][n], [type |-> "start", kept |-> FALSE, over |-> FALSE]),
         inProcess'[c][n] = inProcess[c][n], row'[c][n] = row[c][n]
  PROVE  Flow(c, n)' /\ ~Ending(c, n)'
<1> DEFINE m == [type |-> "start", kept |-> FALSE, over |-> FALSE]
<1>1. mail'[c][n] = <<m>>
  BY DEF Quiet
<1>2. /\ Len(mail'[c][n]) = 1 /\ mail'[c][n][1] = m /\ mail'[c][n] # <<>>
      /\ m.type = "start" /\ m.over = FALSE
  BY <1>1
<1> HIDE DEF m
<1>3. ~Ending(c, n)'
  BY <1>2 DEF Ending
<1> QED
  BY <1>2, <1>3 DEF Flow, Quiet

(* An active object ends. *)
LEMMA PhaseEnds ==
  ASSUME TypeOK, NEW c \in Cameras, NEW n \in Objects, Phase(c, n),
         tracked[c][n] = "active", Ends(c, n),
         inProcess'[c][n] = inProcess[c][n], row'[c][n] = row[c][n],
         finished'[c][n] = finished[c][n]
  PROVE  Phase(c, n)'
<1> DEFINE m == [type |-> "end", kept |-> n \in kept'[c], over |-> TRUE]
<1>1. m \in Message /\ m.type = "end" /\ m.over = TRUE
  BY DEF Message
<1>2. Flow(c, n) /\ ~Ending(c, n) /\ finished[c][n] = 0
  BY DEF Phase
<1>3. tracked'[c][n] = "ended" /\ mail'[c][n] = Append(mail[c][n], m)
  BY DEF Ends
<1> HIDE DEF m
<1>4. Flow(c, n)' /\ Ending(c, n)'
  BY <1>1, <1>2, <1>3, FlowSent
<1> QED
  BY <1>2, <1>3, <1>4 DEF Phase
(* Updates that are drained together: the last one about a camera decides. *)
LEMMA ApplyStep ==
  ASSUME TypeOK, Births, Undisturbed, ApplyUpdates
  PROVE  Births' /\ Undisturbed' /\ processor' = "frame"
<1>1. /\ UNCHANGED <<configured, enabled, tracker, seen, used, batches, orders,
                     inProcess, row, cleaning, finished, disturbed>>
      /\ states' = (states \cup Touched("add")) \ Touched("remove")
      /\ known' = DrainedConfig /\ updates' = <<>> /\ processor' = "frame"
  BY DEF ApplyUpdates, userVars, trackerVars, eventVars
<1>2. \A c \in Cameras : resized'[c] => resized[c]
  BY DEF ApplyUpdates
<1>3. \A c \in Cameras, n \in Objects :
        /\ Gone(c, n, 0) => Gone(c, n, 0)'
        /\ (tracked'[c][n] # "absent" => tracked[c][n] # "absent") /\ Order(c, n)
             => Order(c, n)'
  BY <1>1, OrderKept
<1>4. ASSUME NEW c \in Cameras, NEW n \in Objects PROVE Unborn(c, n)'
  <2>1. ASSUME tracked[c][n] = "absent"
        PROVE  tracked'[c][n] = "absent" /\ mail'[c][n] = mail[c][n]
    <3>1. n \notin Active(c)
      BY <2>1 DEF Active
    <3>2. tracked'[c][n] \in {"absent", tracked[c][n]}
      <4>1. \/ tracked'[c] = [k \in Objects |-> "absent"]
            \/ tracked'[c] = Ended(c, Active(c))
            \/ tracked'[c] = tracked[c]
        BY DEF ApplyUpdates
      <4> QED
        BY <3>1, <4>1 DEF Ended
    <3>3. mail'[c][n] = mail[c][n]
      BY <3>1 DEF ApplyUpdates
    <3> QED
      BY <2>1, <3>2, <3>3
  <2> QED
    BY <1>1, <1>3, <2>1 DEF Births, Unborn
<1>5. ASSUME NEW c \in Cameras, ~disturbed'[c]
      PROVE  /\ Configured(c)'
             /\ \A n \in Objects : Order(c, n)' /\ NoReturn(c, n)' /\ Phase(c, n)'
  <2>1. Configured(c) /\ \A n \in Objects : Order(c, n) /\ NoReturn(c, n) /\ Phase(c, n)
    BY <1>1, <1>5 DEF Undisturbed
  <2>2. /\ c \notin Touched("remove")
        /\ c \in Touched("add") => DrainedConfig[c]
        /\ c \notin Touched("add") => DrainedConfig[c] = known[c]
    BY <2>1, Drained
  <2>3. \A n \in Objects : /\ SameLife(c, n) \/ ForcedToEnd(c, n)
                           /\ prev'[c] => Follows(c)
    BY <2>1, UpdatesApplied
  <2>4. Configured(c)'
    <3>1. c \in states' <=> c \in states \/ c \in Touched("add")
      BY <1>1, <2>2
    <3>2. c \in states' => known'[c]
      BY <1>1, <2>1, <2>2, <3>1 DEF Configured
    <3>3. c \notin states' => \A n \in Objects : tracked'[c][n] = "absent"
      BY <2>1, <2>3, <3>1 DEF Configured, SameLife, ForcedToEnd
    <3>4. ~configured[c] => c \notin states'
      BY <2>1, <3>1 DEF Configured, Touched
    <3>5. Len(updates') = 0
      BY <1>1
    <3> QED
      BY <1>1, <1>2, <2>1, <3>2, <3>3, <3>4, <3>5 DEF Configured
  <2>5. ASSUME NEW n \in Objects
        PROVE  Order(c, n)' /\ NoReturn(c, n)' /\ Phase(c, n)'
    <3>1. CASE SameLife(c, n)
      <4>1. NoReturn(c, n)'
        BY <1>1, <1>3, <2>1, <2>3, <3>1, Life DEF NoReturn, Follows
      <4> QED
        BY <1>3, <2>1, <3>1, <4>1, Life
    <3>2. CASE ForcedToEnd(c, n)
      <4>1. NoReturn(c, n)'
        BY <1>1, <3>2 DEF NoReturn, ForcedToEnd
      <4>2. Order(c, n)'
        BY <1>3, <2>1, <3>2 DEF ForcedToEnd
      <4>3. Phase(c, n)'
        BY <2>1, <3>2, PhaseEnds DEF ForcedToEnd
      <4> QED
        BY <4>1, <4>2, <4>3
    <3> QED
      BY <2>3, <3>1, <3>2
  <2> QED
    BY <2>4, <2>5
<1> QED
  BY <1>1, <1>4, <1>5 DEF Births, Undisturbed

(* The object processor takes a frame of a camera that is not disturbed:   *)
(* what it does to an object of it.                                        *)
LEMMA FrameOf ==
  ASSUME TypeOK, TakeFrame, NEW c \in Cameras, NEW n \in Objects
  PROVE  /\ c # Head(batches)[1] =>
              /\ SameLife(c, n) /\ tracked'[c] = tracked[c] /\ kept'[c] = kept[c]
              /\ takenBack'[c] = takenBack[c]
         /\ c = Head(batches)[1] =>
              /\ known[c] /\ enabled[c] /\ c \in states
              /\ ~resized[c] => FrameTaken(c, n, n \in Head(batches)[2], tracked[c][n])
              /\ resized[c] =>
                   \/ FrameTaken(c, n, n \in Head(batches)[2], "absent")
                   \/ tracked'[c][n] = "absent" /\ mail'[c][n] = mail[c][n]
         /\ inProcess'[c][n] = inProcess[c][n] /\ row'[c][n] = row[c][n]
         /\ finished'[c][n] = finished[c][n]
<1> DEFINE d == Head(batches)[1]
           ids == Head(batches)[2]
           before == IF resized[d] THEN [k \in Objects |-> "absent"] ELSE tracked[d]
<1>1. /\ batches # <<>> /\ batches' = Tail(batches)
      /\ UNCHANGED <<inProcess, row, finished>>
      /\ Processes(d)
      /\ \/ UpdateObjects(d, ids, before)
         \/ /\ resized[d] /\ tracked' = [tracked EXCEPT ![d] = before]
            /\ UNCHANGED <<kept, takenBack, mail>>
  BY DEF TakeFrame, eventVars
<1>2. d \in Cameras /\ ids \in SUBSET Objects
  BY <1>1, BatchTaken
<1>3. before \in [Objects -> {"absent", "active", "ended"}]
  BY <1>2 DEF TypeOK
<1>4. tracked \in [Cameras -> [Objects -> {"absent", "active", "ended"}]]
  BY DEF TypeOK
<1> HIDE DEF d, ids
<1>5. CASE UpdateObjects(d, ids, before)
  <2>1. /\ \A e \in Cameras \ {d} :
             /\ tracked'[e] = tracked[e] /\ kept'[e] = kept[e]
             /\ takenBack'[e] = takenBack[e] /\ mail'[e] = mail[e]
        /\ \A k \in Objects : FrameTaken(d, k, k \in ids, before[k])
    <3> HIDE DEF before
    <3> QED
      BY <1>2, <1>3, <1>5, ObjectsUpdated
  <2>2. c # d => /\ SameLife(c, n) /\ tracked'[c] = tracked[c] /\ kept'[c] = kept[c]
                 /\ takenBack'[c] = takenBack[c]
    BY <1>1, <2>1 DEF SameLife
  <2>3. c = d => /\ ~resized[c] => FrameTaken(c, n, n \in ids, tracked[c][n])
                 /\ resized[c] => FrameTaken(c, n, n \in ids, "absent")
    BY <2>1
  <2> QED
    BY <1>1, <2>2, <2>3 DEF d, ids, Processes
<1>6. CASE /\ resized[d] /\ tracked' = [tracked EXCEPT ![d] = before]
           /\ UNCHANGED <<kept, takenBack, mail>>
  <2>1. c # d => /\ SameLife(c, n) /\ tracked'[c] = tracked[c] /\ kept'[c] = kept[c]
                 /\ takenBack'[c] = takenBack[c]
    BY <1>1, <1>4, <1>6 DEF SameLife
  <2>2. c = d => tracked'[c][n] = "absent" /\ mail'[c][n] = mail[c][n]
    BY <1>2, <1>4, <1>6
  <2> QED
    BY <1>1, <1>6, <2>1, <2>2 DEF d, Processes
<1> QED
  BY <1>1, <1>5, <1>6
(* A batch moves each object of its camera one phase on at most.           *)
LEMMA TakeStep ==
  ASSUME TypeOK, Births, Undisturbed, TakeFrame
  PROVE  Births' /\ Undisturbed' /\ processor' = "finished"
<1> DEFINE d == Head(batches)[1]
           ids == Head(batches)[2]
<1>1. /\ UNCHANGED <<configured, enabled, known, tracker, seen, used, updates, orders,
                     states, prev, cleaning, disturbed>>
      /\ batches # <<>> /\ batches' = Tail(batches) /\ processor' = "finished"
  BY DEF TakeFrame, userVars, trackerVars, eventVars
<1>2. \A c \in Cameras : resized'[c] => resized[c]
  BY DEF TakeFrame, TypeOK
<1>3. batches \in Seq(Cameras \X SUBSET Objects)
  BY DEF TypeOK
<1>4. /\ Len(batches) \in Nat /\ Len(batches) >= 1 /\ Head(batches) = batches[1]
      /\ Len(batches') = Len(batches) - 1
      /\ \A i \in 1..(Len(batches) - 1) : batches'[i] = batches[i + 1]
  BY <1>1, <1>3, Elements, Shifted
<1>5. \A i \in 1..Len(batches') : \E j \in 1..Len(batches) : batches'[i] = batches[j]
  BY <1>4
<1>6. \A n \in Objects : /\ n \in ids => In(d, n, 1)
                         /\ n \notin ids => Out(d, n, 1)
                         /\ Gone(d, n, 0) => n \notin ids
  BY <1>4 DEF In, Out, Gone
<1> HIDE DEF d, ids
<1>7. ASSUME NEW c \in Cameras, NEW n \in Objects PROVE Unborn(c, n)'
  <2>1. Gone(c, n, 0) => Gone(c, n, 0)'
    BY <1>1, OrderTaken
  <2>2. CASE c # d
    BY <1>1, <2>1, <2>2, FrameOf, StillUnborn DEF Births, d
  <2>3. CASE c = d
    <3>1. ASSUME n > used[c]
          PROVE  tracked'[c][n] = "absent" /\ mail'[c][n] = mail[c][n]
      <4>1. n \notin ids /\ tracked[c][n] = "absent"
        BY <1>6, <2>3, <3>1 DEF Births, Unborn
      <4> QED
        BY <2>3, <4>1, FrameOf DEF d, ids, FrameTaken, Stays
    <3>2. inProcess'[c][n] = inProcess[c][n] /\ row'[c][n] = row[c][n]
      BY FrameOf
    <3> QED
      BY <1>1, <2>1, <3>1, <3>2 DEF Births, Unborn
  <2> QED
    BY <2>2, <2>3
<1>8. ASSUME NEW c \in Cameras, ~disturbed'[c]
      PROVE  /\ Configured(c)'
             /\ \A n \in Objects : Order(c, n)' /\ NoReturn(c, n)' /\ Phase(c, n)'
  <2>1. Configured(c) /\ \A n \in Objects : Order(c, n) /\ NoReturn(c, n) /\ Phase(c, n)
    BY <1>1, <1>8 DEF Undisturbed
  <2>2. Configured(c)'
    <3>1. ASSUME c \notin states PROVE \A n \in Objects : tracked'[c][n] = "absent"
      <4>1. \A n \in Objects : c # d /\ SameLife(c, n)
        BY <3>1, FrameOf DEF d
      <4> QED
        BY <2>1, <3>1, <4>1 DEF Configured, SameLife
    <3>2. (\A i \in 1..Len(batches) : batches[i][1] # c)
            => \A i \in 1..Len(batches') : batches'[i][1] # c
      BY <1>5
    <3> QED
      BY <1>1, <1>2, <2>1, <3>1, <3>2 DEF Configured
  <2>3. ASSUME NEW n \in Objects
        PROVE  Order(c, n)' /\ NoReturn(c, n)' /\ Phase(c, n)'
    <3>1. /\ Gone(c, n, 0) => Gone(c, n, 0)'
          /\ tracked[c][n] # "absent" /\ Out(c, n, 1) => Gone(c, n, 0)'
          /\ (tracked'[c][n] # "absent" => tracked[c][n] # "absent" \/ In(c, n, 1))
               => Order(c, n)'
      BY <1>1, <2>1, OrderTaken
    <3>2. CASE SameLife(c, n)
      <4>1. Done(c, n)' => Done(c, n)
        BY <3>2, Life
      <4>2. NoReturn(c, n)'
        BY <1>1, <2>1, <3>1, <4>1 DEF NoReturn
      <4> QED
        BY <2>1, <3>1, <3>2, <4>2, Life
    <3>3. CASE ~SameLife(c, n)
      <4>1. c = d /\ enabled[c] /\ ~resized[c]
        BY <2>1, <3>3, FrameOf DEF d, Configured
      <4>2. /\ FrameTaken(c, n, n \in ids, tracked[c][n])
            /\ inProcess'[c][n] = inProcess[c][n] /\ row'[c][n] = row[c][n]
            /\ finished'[c][n] = finished[c][n]
        BY <4>1, FrameOf DEF d, ids
      <4>3. n \in ids => ~Done(c, n)
        BY <1>6, <2>1, <4>1 DEF NoReturn
      <4>4. tracked[c][n] \in {"absent", "active", "ended"}
        BY DEF TypeOK
      <4>5. CASE n \in ids /\ tracked[c][n] = "absent"
        <5>1. Starts(c, n)
          BY <4>2, <4>5 DEF FrameTaken
        <5>2. Quiet(c, n) /\ finished[c][n] = 0 /\ row[c][n] = "none"
          BY <2>1, <4>3, <4>5 DEF Phase, Done
        <5>3. Flow(c, n)' /\ ~Ending(c, n)'
          BY <4>2, <5>1, <5>2, FlowStarted DEF Starts
        <5>4. Phase(c, n)' /\ NoReturn(c, n)'
          BY <4>2, <5>1, <5>2, <5>3 DEF Phase, Starts, NoReturn, Done
        <5> QED
          BY <1>6, <3>1, <4>1, <4>5, <5>4
      <4>6. CASE n \in ids /\ tracked[c][n] # "absent"
        <5>1. tracked[c][n] = "active"
          BY <4>3, <4>4, <4>6 DEF Done
        <5>2. SendsUpdate(c, n, "active")
          BY <3>3, <4>2, <4>6, <5>1 DEF FrameTaken, Stays, SameLife
        <5> DEFINE m == [type |-> "update", kept |-> n \in kept'[c],
                         over |-> FALSE]
        <5>3. m \in Message /\ m.type = "update" /\ m.over = FALSE
          BY DEF Message
        <5>4. tracked'[c][n] = "active" /\ mail'[c][n] = Append(mail[c][n], m)
          <6>1. ("active" = "ended") = FALSE
            OBVIOUS
          <6> QED
            BY <5>2, <6>1 DEF SendsUpdate
        <5> HIDE DEF m
        <5>5. Flow(c, n) /\ ~Ending(c, n) /\ finished[c][n] = 0
          BY <2>1, <5>1 DEF Phase
        <5>6. Flow(c, n)' /\ ~Ending(c, n)'
          BY <4>2, <5>3, <5>4, <5>5, FlowSent
        <5>7. Phase(c, n)' /\ NoReturn(c, n)'
          BY <4>2, <5>4, <5>5, <5>6 DEF Phase, NoReturn, Done
        <5> QED
          BY <3>1, <5>1, <5>7
      <4>7. CASE n \notin ids
        <5>1. tracked[c][n] = "active" /\ Ends(c, n)
          BY <3>3, <4>2, <4>7 DEF FrameTaken, Stays, SameLife
        <5>2. Phase(c, n)'
          BY <2>1, <4>2, <5>1, PhaseEnds
        <5>3. Gone(c, n, 0)'
          BY <1>6, <3>1, <4>1, <4>7, <5>1
        <5> QED
          BY <3>1, <5>1, <5>2, <5>3 DEF NoReturn
      <4> QED
        BY <4>5, <4>6, <4>7
    <3> QED
      BY <3>2, <3>3
  <2> QED
    BY <2>2, <2>3
<1> QED
  BY <1>1, <1>7, <1>8 DEF Births, Undisturbed

(* A report is about an object that has ended, and is the only one.        *)
LEMMA ForgetStep ==
  ASSUME TypeOK, Births, Undisturbed, ProcessorSurvives,
         NEW d \in Cameras, NEW k \in Objects, ForgetObject(d, k)
  PROVE  Births' /\ Undisturbed' /\ ProcessorSurvives'
<1>1. /\ UNCHANGED <<configured, enabled, known, resized, tracker, seen, used, batches,
                     updates, orders, states, prev, kept, mail, inProcess, row,
                     cleaning, disturbed>>
      /\ finished[d][k] > 0 /\ finished' = [finished EXCEPT ![d][k] = @ - 1]
      /\ \/ d \notin states /\ UNCHANGED <<processor, tracked>>
         \/ /\ d \in states /\ tracked[d][k] # "absent"
            /\ tracked' = [tracked EXCEPT ![d][k] = "absent"]
            /\ UNCHANGED processor
         \/ /\ d \in states /\ tracked[d][k] = "absent"
            /\ processor' = "dead"
            /\ UNCHANGED tracked
  BY DEF ForgetObject, userVars, trackerVars, eventVars
<1>2. /\ tracked \in [Cameras -> [Objects -> {"absent", "active", "ended"}]]
      /\ finished \in [Cameras -> [Objects -> Nat]]
  BY DEF TypeOK
<1>3. /\ finished'[d][k] = finished[d][k] - 1
      /\ \A c \in Cameras, n \in Objects : c # d \/ n # k => SameLife(c, n)
      /\ \A c \in Cameras, n \in Objects : tracked'[c][n] \in {tracked[c][n], "absent"}
  BY <1>1, <1>2 DEF SameLife
<1>4. \A c \in Cameras, n \in Objects :
        (Gone(c, n, 0) => Gone(c, n, 0)') /\ (Order(c, n) => Order(c, n)')
  BY <1>1, <1>3, OrderKept
<1>5. \A c \in Cameras, n \in Objects : Unborn(c, n) => Unborn(c, n)'
  BY <1>1, <1>3, <1>4 DEF Unborn
<1>6. ASSUME ~disturbed[d]
      PROVE  /\ tracked[d][k] = "ended" /\ finished[d][k] = 1 /\ Quiet(d, k)
             /\ d \in states
    BY <1>1, <1>6 DEF Undisturbed, Phase, Configured
<1>7. ASSUME NEW c \in Cameras, ~disturbed'[c]
      PROVE  /\ Configured(c)'
             /\ \A n \in Objects : Order(c, n)' /\ NoReturn(c, n)' /\ Phase(c, n)'
  <2>1. Configured(c) /\ \A n \in Objects : Order(c, n) /\ NoReturn(c, n) /\ Phase(c, n)
    BY <1>1, <1>7 DEF Undisturbed
  <2>2. Configured(c)'
    BY <1>1, <1>3, <2>1 DEF Configured
  <2>3. ASSUME NEW n \in Objects PROVE NoReturn(c, n)' /\ Phase(c, n)'
    <3>1. CASE c # d \/ n # k
      <4>1. Done(c, n)' => Done(c, n)
        BY <1>3, <3>1, Life
      <4>2. NoReturn(c, n)'
        BY <1>1, <1>4, <2>1, <4>1 DEF NoReturn
      <4> QED
        BY <1>3, <2>1, <3>1, <4>2, Life
    <3>2. CASE c = d /\ n = k
      <4>1. /\ tracked[c][n] = "ended" /\ finished'[c][n] = 0 /\ Quiet(c, n)
            /\ tracked'[c][n] = "absent"
        BY <1>1, <1>2, <1>3, <1>6, <1>7, <3>2
      <4>2. Phase(c, n)'
        BY <1>1, <4>1 DEF Phase, Quiet
      <4>3. Done(c, n)
        BY <4>1 DEF Done
      <4> QED
        BY <1>1, <1>4, <2>1, <4>2, <4>3 DEF NoReturn
    <3> QED
      BY <3>1, <3>2
  <2> QED
    BY <1>4, <2>1, <2>2, <2>3
<1>8. ProcessorSurvives'
  BY <1>1, <1>6 DEF ProcessorSurvives
<1> QED
  BY <1>5, <1>7, <1>8 DEF Births, Undisturbed
(* The message that the event processor handles when all is in order.      *)
InOrder(c, n, m) ==
  /\ mail[c][n] \in Seq(Message) /\ mail'[c][n] = Tail(mail[c][n])
  /\ Len(mail[c][n]) \in Nat /\ Len(mail[c][n]) >= 1
  /\ 1 \in 1..Len(mail[c][n]) /\ m = mail[c][n][1]
  /\ Len(mail'[c][n]) = Len(mail[c][n]) - 1
  /\ \A i \in 1..(Len(mail[c][n]) - 1) : mail'[c][n][i] = mail[c][n][i + 1]
  /\ m.type \in {"start", "update", "end"} /\ m.kept \in BOOLEAN
  /\ m.over \in BOOLEAN /\ (m.over <=> m.type = "end")
  /\ inProcess[c][n] # None =>
       ~inProcess[c][n].over /\ inProcess[c][n].kept \in BOOLEAN
  /\ \/ m.type = "start" /\ row[c][n] = "none" /\ Stored(c, n, m)
     \/ m.type = "update" /\ (Written(c, n, m) \/ Passed(c, n, m))
     \/ /\ m.type = "end" /\ Len(mail[c][n]) = 1
        /\ Written(c, n, m) \/ Passed(c, n, m)

(* The messages of an object arrive in their order.                        *)
LEMMA HeadOfFlow ==
  ASSUME TypeOK, NEW c \in Cameras, NEW n \in Objects, HandleEvent(c, n),
         Flow(c, n), known[c], NEW m, m = Head(mail[c][n])
  PROVE  InOrder(c, n, m)
<1>1. /\ mail[c][n] # <<>> /\ mail'[c][n] = Tail(mail[c][n])
      /\ Stored(c, n, m) \/ LeftAlone(c, n, m) \/ Written(c, n, m) \/ Passed(c, n, m)
  BY EventHandled
<1>2. /\ m \in Message /\ m.type \in {"start", "update", "end"}
      /\ m.kept \in BOOLEAN /\ m.over \in BOOLEAN
      /\ inProcess[c][n] # None => inProcess[c][n].kept \in BOOLEAN
  BY <1>1, MessageTypes
<1>3. mail[c][n] \in Seq(Message)
  BY DEF TypeOK
<1>4. /\ Len(mail[c][n]) \in Nat /\ Len(mail[c][n]) >= 1 /\ m = mail[c][n][1]
      /\ Len(mail'[c][n]) = Len(mail[c][n]) - 1
      /\ \A i \in 1..(Len(mail[c][n]) - 1) : mail'[c][n][i] = mail[c][n][i + 1]
  BY <1>1, <1>3, Elements, Shifted
<1>5. 1 \in 1..Len(mail[c][n])
  BY <1>4
<1>6. /\ m.type = "start" => inProcess[c][n] = None /\ row[c][n] = "none"
      /\ m.over <=> m.type = "end"
      /\ m.type = "end" => Len(mail[c][n]) = 1
      /\ inProcess[c][n] = None => m.type = "start"
      /\ inProcess[c][n] # None => ~inProcess[c][n].over
  BY <1>4, <1>5 DEF Flow
<1>7. \/ m.type = "start" /\ row[c][n] = "none" /\ Stored(c, n, m)
      \/ m.type = "update" /\ (Written(c, n, m) \/ Passed(c, n, m))
      \/ /\ m.type = "end" /\ Len(mail[c][n]) = 1
         /\ Written(c, n, m) \/ Passed(c, n, m)
  BY <1>1, <1>2, <1>6 DEF Stored, LeftAlone, Written, Passed
<1> QED
  BY <1>1, <1>2, <1>3, <1>4, <1>5, <1>6, <1>7 DEF InOrder

(* The event processor handles a message about an event that is in order. *)
LEMMA FlowHandled ==
  ASSUME TypeOK, NEW c \in Cameras, NEW n \in Objects, HandleEvent(c, n),
         Flow(c, n), known[c]
  PROVE  \/ /\ Ending(c, n) /\ Quiet(c, n)' /\ finished'[c][n] = finished[c][n] + 1
         \/ /\ Ending(c, n)' <=> Ending(c, n)
            /\ Flow(c, n)' /\ finished'[c][n] = finished[c][n]
<1> DEFINE m == Head(mail[c][n])
<1>1. InOrder(c, n, m)
  BY HeadOfFlow
<1>2. row[c][n] \in {"none", "open"}
  BY DEF Flow
<1> HIDE DEF m
<1>3. CASE m.type = "end"
  <2>1. Written(c, n, m) \/ Passed(c, n, m)
    BY <1>1, <1>3 DEF InOrder
  <2>2. inProcess'[c][n] = None /\ finished'[c][n] = finished[c][n] + 1
    BY <1>3, <2>1 DEF Written, Passed
  <2>3. mail'[c][n] = <<>>
    <3>1. mail'[c][n] \in Seq(Message)
      BY <1>1, Shifted DEF InOrder
    <3> QED
      BY <1>1, <1>3, <3>1, Elements DEF InOrder
  <2>4. Ending(c, n)
    BY <1>1, <1>3 DEF InOrder, Ending
  <2> QED
    BY <2>2, <2>3, <2>4 DEF Quiet
<1>4. CASE m.type # "end"
  <2>1. \A i \in 1..Len(mail'[c][n]) :
          i + 1 \in 1..Len(mail[c][n]) /\ mail'[c][n][i] = mail[c][n][i + 1] /\ i + 1 # 1
    BY <1>1 DEF InOrder
  <2>2. \A i \in 1..Len(mail'[c][n]) :
          /\ mail'[c][n][i].type # "start"
          /\ mail'[c][n][i].over <=> mail'[c][n][i].type = "end"
          /\ mail'[c][n][i].type = "end" => i = Len(mail'[c][n])
    <3>1. ASSUME NEW i \in 1..Len(mail'[c][n])
          PROVE  /\ mail'[c][n][i].type # "start"
                 /\ mail'[c][n][i].over <=> mail'[c][n][i].type = "end"
                 /\ mail'[c][n][i].type = "end" => i + 1 = Len(mail[c][n])
      <4>1. i + 1 \in 1..Len(mail[c][n]) /\ i + 1 # 1
        BY <2>1
      <4>2. mail'[c][n][i] = mail[c][n][i + 1]
        BY <2>1
      <4>3. /\ mail[c][n][i + 1].type # "start"
            /\ mail[c][n][i + 1].over <=> mail[c][n][i + 1].type = "end"
            /\ mail[c][n][i + 1].type = "end" => i + 1 = Len(mail[c][n])
        BY <4>1 DEF Flow
      <4> QED
        BY <4>2, <4>3
    <3> QED
      BY <1>1, <3>1 DEF InOrder
  <2>3. Ending(c, n)' <=> Ending(c, n)
    <3>1. Ending(c, n)' => Ending(c, n)
      BY <2>1 DEF Ending
    <3>2. ASSUME Ending(c, n) PROVE Ending(c, n)'
      <4>1. PICK j \in 1..Len(mail[c][n]) : mail[c][n][j].type = "end"
        BY <3>2 DEF Ending
      <4>2. j # 1
        BY <1>1, <1>4, <4>1 DEF InOrder
      <4>3. j - 1 \in 1..Len(mail'[c][n]) /\ (j - 1) + 1 = j
        BY <1>1, <4>2 DEF InOrder
      <4>4. mail'[c][n][j - 1] = mail[c][n][j]
        BY <2>1, <4>3
      <4> QED
        BY <4>1, <4>3, <4>4 DEF Ending
    <3> QED
      BY <3>1, <3>2
  <2>4. /\ inProcess'[c][n] # None /\ ~inProcess'[c][n].over
        /\ row'[c][n] \in {"none", "open"} /\ finished'[c][n] = finished[c][n]
    <3>1. \A k \in BOOLEAN : /\ [kept |-> k, over |-> m.over] # None
                             /\ [kept |-> k, over |-> m.over].over = m.over
      BY <1>1, NoneAssumption DEF InOrder, Event
    <3>2. CASE Stored(c, n, m)
      BY <1>1, <1>2, <1>4, <3>1, <3>2 DEF InOrder, Stored
    <3>3. CASE Written(c, n, m)
      <4>1. /\ row'[c][n] = "open" /\ finished'[c][n] = finished[c][n]
            /\ inProcess'[c][n] =
                 [kept |-> m.kept \/ inProcess[c][n].kept, over |-> m.over]
        BY <1>1, <1>4, <3>3 DEF InOrder, Written
      <4>2. (m.kept \/ inProcess[c][n].kept) \in BOOLEAN
        OBVIOUS
      <4> QED
        BY <1>1, <1>4, <3>1, <4>1, <4>2 DEF InOrder
    <3>4. CASE Passed(c, n, m)
      <4>1. /\ row'[c][n] = row[c][n] /\ finished'[c][n] = finished[c][n]
            /\ inProcess[c][n] # None
            /\ inProcess'[c][n] \in {inProcess[c][n],
                                     [kept |-> m.kept, over |-> m.over]}
        BY <1>4, <3>4 DEF Passed
      <4> QED
        BY <1>1, <1>2, <1>4, <3>1, <4>1 DEF InOrder
    <3> QED
      BY <1>1, <1>4, <3>2, <3>3, <3>4 DEF InOrder
  <2> QED
    BY <2>2, <2>3, <2>4 DEF Flow
<1> QED
  BY <1>3, <1>4

(* A message that is handled moves from the link to the event or the row.  *)
LEMMA HandleStep ==
  ASSUME TypeOK, Births, Undisturbed, NEW d \in Cameras, NEW k \in Objects,
         HandleEvent(d, k)
  PROVE  /\ Births' /\ Undisturbed'
         /\ ~disturbed[d] => Flow(d, k) /\ known[d]
<1>1. UNCHANGED <<configured, enabled, known, resized, tracker, seen, used, batches,
                  updates, orders, processor, states, prev, tracked, kept, cleaning,
                  disturbed>>
  BY DEF HandleEvent, userVars, trackerVars, objectVars
<1>2. /\ mail[d][k] # <<>>
      /\ \A c \in Cameras, n \in Objects : c # d \/ n # k => SameLife(c, n)
  <2>1. /\ mail[d][k] # <<>>
        /\ \A c \in Cameras, n \in Objects : <<c, n>> # <<d, k>> =>
             /\ inProcess'[c][n] = inProcess[c][n] /\ row'[c][n] = row[c][n]
             /\ finished'[c][n] = finished[c][n] /\ mail'[c][n] = mail[c][n]
    BY EventHandled
  <2>2. \A c \in Cameras, n \in Objects : c # d \/ n # k => <<c, n>> # <<d, k>>
    OBVIOUS
  <2> QED
    BY <1>1, <2>1, <2>2 DEF SameLife
<1>3. \A c \in Cameras, n \in Objects :
        (Gone(c, n, 0) => Gone(c, n, 0)') /\ (Order(c, n) => Order(c, n)')
  BY <1>1, OrderKept
<1>4. \A c \in Cameras, n \in Objects : Unborn(c, n)'
  <2>1. ASSUME NEW c \in Cameras, NEW n \in Objects PROVE Unborn(c, n)'
    <3>1. CASE c # d \/ n # k
      BY <1>1, <1>2, <1>3, <3>1, StillUnborn DEF Births
    <3>2. CASE c = d /\ n = k
      BY <1>1, <1>2, <3>2 DEF Births, Unborn
    <3> QED
      BY <3>1, <3>2
  <2> QED
    BY <2>1
<1>5. ASSUME ~disturbed[d]
      PROVE  /\ Flow(d, k) /\ known[d] /\ finished[d][k] = 0
             /\ IF Ending(d, k) THEN tracked[d][k] = "ended"
                                ELSE tracked[d][k] = "active"
  BY <1>2, <1>5 DEF Undisturbed, Phase, Quiet, Configured
<1>6. ASSUME NEW c \in Cameras, ~disturbed'[c]
      PROVE  /\ Configured(c)'
             /\ \A n \in Objects : Order(c, n)' /\ NoReturn(c, n)' /\ Phase(c, n)'
  <2>1. Configured(c) /\ \A n \in Objects : Order(c, n) /\ NoReturn(c, n) /\ Phase(c, n)
    BY <1>1, <1>6 DEF Undisturbed
  <2>2. Configured(c)'
    BY <1>1, <2>1, StillConfigured
  <2>3. ASSUME NEW n \in Objects PROVE NoReturn(c, n)' /\ Phase(c, n)'
    <3>1. CASE c # d \/ n # k
      <4>1. Done(c, n)' => Done(c, n)
        BY <1>2, <3>1, Life
      <4>2. NoReturn(c, n)'
        BY <1>1, <1>3, <2>1, <4>1 DEF NoReturn
      <4> QED
        BY <1>2, <2>1, <3>1, <4>2, Life
    <3>2. CASE c = d /\ n = k
      <4>1. /\ Flow(c, n) /\ known[c] /\ finished[c][n] = 0 /\ HandleEvent(c, n)
            /\ IF Ending(c, n) THEN tracked[c][n] = "ended" ELSE tracked[c][n] = "active"
        BY <1>1, <1>5, <1>6, <3>2
      <4>2. \/ /\ Ending(c, n) /\ Quiet(c, n)' /\ finished'[c][n] = finished[c][n] + 1
            \/ /\ Ending(c, n)' <=> Ending(c, n)
               /\ Flow(c, n)' /\ finished'[c][n] = finished[c][n]
        BY <4>1, FlowHandled
      <4>3. tracked'[c][n] = tracked[c][n]
        BY <1>1
      <4>4. Phase(c, n)'
        BY <4>1, <4>2, <4>3 DEF Phase
      <4>5. NoReturn(c, n)'
        BY <1>1, <1>3, <2>1, <4>1 DEF NoReturn, Done
      <4> QED
        BY <4>4, <4>5
    <3> QED
      BY <3>1, <3>2
  <2> QED
    BY <1>3, <2>1, <2>2, <2>3
<1> QED
  BY <1>4, <1>5, <1>6 DEF Births, Undisturbed

-----------------------------------------------------------------------------
(* The invariant holds *)

LEMMA InitInv == Init => Inv
<1> SUFFICES ASSUME Init PROVE Inv
  OBVIOUS
<1>1. /\ batches = <<>> /\ updates = <<>> /\ orders = <<>> /\ processor = "config"
      /\ known = configured /\ states = {c \in Cameras : configured[c]}
      /\ resized = All(FALSE) /\ seen = All({}) /\ cleaning = All(FALSE)
      /\ tracker = [c \in Cameras |-> IF configured[c] THEN "on" ELSE "stopped"]
  BY DEF Init
<1>2. \A c \in Cameras :
        /\ ~resized[c] /\ seen[c] = {} /\ ~cleaning[c]
        /\ ~configured[c] => tracker[c] = "stopped"
  BY <1>1 DEF All
<1>3. \A c \in Cameras, n \in Objects :
        /\ tracked[c][n] = "absent" /\ mail[c][n] = <<>>
        /\ inProcess[c][n] = None /\ finished[c][n] = 0 /\ row[c][n] = "none"
  <2>1. /\ tracked = PerObject("absent") /\ mail = PerObject(<<>>)
        /\ inProcess = PerObject(None) /\ finished = PerObject(0)
        /\ row = PerObject("none")
    BY DEF Init
  <2>2. \A x : \A c \in Cameras, n \in Objects : PerObject(x)[c][n] = x
    BY DEF PerObject, All
  <2> QED
    BY <2>1, <2>2
<1>4. Len(batches) = 0 /\ Len(updates) = 0 /\ Len(orders) = 0
  BY <1>1
<1>5. \A c \in Cameras, n \in Objects : Gone(c, n, 0)
  BY <1>2, <1>4 DEF Gone
<1>6. \A c \in Cameras : Configured(c)
  <2>1. \A c \in Cameras : /\ c \in states => known[c]
                           /\ ~configured[c] => c \notin states
    BY <1>1
  <2>2. (\A i \in 1..Len(batches) : FALSE) /\ (\A i \in 1..Len(updates) : FALSE)
          /\ (\A i \in 1..Len(orders) : FALSE)
    BY <1>4
  <2> QED
    BY <1>2, <1>3, <2>1, <2>2, Zenon DEF Configured
<1>7. \A c \in Cameras, n \in Objects : Order(c, n) /\ NoReturn(c, n) /\ Phase(c, n)
  BY <1>3, <1>4, <1>5 DEF Order, NoReturn, Phase, Quiet
<1>8. \A c \in Cameras, n \in Objects : Unborn(c, n)
  BY <1>3, <1>5 DEF Unborn
<1> QED
  BY <1>1, <1>6, <1>7, <1>8, InitTypes DEF Inv, Births, Undisturbed, ProcessorSurvives

(* Only a restart forgets that a camera was disturbed. *)
LEMMA StillDisturbed ==
  ASSUME TypeOK, [Next]_vars, ~Restart, NEW c \in Cameras, disturbed[c]
  PROVE  disturbed'[c]
<1>1. \/ disturbed' = disturbed
      \/ \E d \in Cameras : disturbed' = [disturbed EXCEPT ![d] = TRUE]
      \/ \E d \in Cameras : disturbed' = [disturbed EXCEPT ![d] = @ \/ Hasty(d)]
  BY DEF Next, ObjectProcessor, Detect, Frame, NoticeEnabled, CleanCamera, HandleEvent,
         MaintainCamera, FailToAdd, ApplyUpdates, NoFrame, SkipFrame, TakeFrame,
         ForgetObject, NoneFinished, DisableCamera, EnableCamera, RemoveCamera,
         AddCamera, ResizeCamera, vars
<1>2. disturbed \in [Cameras -> BOOLEAN]
  BY DEF TypeOK
<1> QED
  BY <1>1, <1>2, Zenon

(* The object processor fails in two steps only. *)
LEMMA StillRuns ==
  ASSUME TypeOK, Births, Undisturbed, ProcessorSurvives, [Next]_vars
  PROVE  ProcessorSurvives'
<1>1. CASE Restart
  BY <1>1, RestartStep DEF ProcessorSurvives
<1>2. CASE FailToAdd
  BY <1>2, FailStep
<1>3. CASE \E c \in Cameras, n \in Objects : ForgetObject(c, n)
  BY <1>3, ForgetStep
<1>4. CASE /\ ~Restart /\ ~FailToAdd
           /\ ~\E c \in Cameras, n \in Objects : ForgetObject(c, n)
  <2>1. processor' \in {processor, "config", "frame", "finished"}
    BY <1>4
       DEF Next, ObjectProcessor, Detect, Frame, NoticeEnabled, CleanCamera,
           HandleEvent, MaintainCamera, ApplyUpdates, NoFrame, SkipFrame, TakeFrame,
           NoneFinished, DisableCamera, EnableCamera, RemoveCamera, AddCamera,
           ResizeCamera, vars
  <2> QED
    BY <1>4, <2>1, StillDisturbed DEF ProcessorSurvives
<1> QED
  BY <1>1, <1>2, <1>3, <1>4

(* The invariant is inductive.                                             *)
LEMMA StepInv == Inv /\ [Next]_vars => Inv'
<1> SUFFICES ASSUME Inv, [Next]_vars PROVE Inv'
  OBVIOUS
<1>1. /\ TypeOK /\ Births /\ Undisturbed /\ ProcessorSurvives
      /\ TypeOK' /\ ProcessorSurvives'
  BY StepTypes, StillRuns DEF Inv
<1> SUFFICES Births' /\ Undisturbed'
  BY <1>1 DEF Inv
<1>2. CASE \E c \in Cameras : Frame(c)
  <2>1. PICK d \in Cameras : Frame(d)
    BY <1>2
  <2>2. disturbed' = disturbed
    BY <2>1 DEF Frame
  <2>3. Births'
    BY <1>1, <2>1, FrameStep DEF Births
  <2>4. Undisturbed'
    BY <1>1, <2>1, <2>2, FrameStep, FrameConfigured DEF Undisturbed
  <2> QED
    BY <2>3, <2>4
<1>3. CASE \E c \in Cameras : NoticeEnabled(c) \/ CleanCamera(c)
  BY <1>1, <1>3, NoticeStep, CleanStep
<1>4. CASE \E c \in Cameras, n \in Objects : HandleEvent(c, n)
  BY <1>1, <1>4, HandleStep
<1>5. CASE MaintainCamera
  BY <1>1, <1>5, MaintainStep
<1>6. CASE NoFrame \/ SkipFrame \/ TakeFrame \/ NoneFinished
  BY <1>1, <1>6, QuietStep, SkipStep, TakeStep
<1>7. CASE ApplyUpdates \/ FailToAdd
  BY <1>1, <1>7, ApplyStep, FailStep
<1>8. CASE \E c \in Cameras, n \in Objects : ForgetObject(c, n)
  BY <1>1, <1>8, ForgetStep
<1>9. CASE \E c \in Cameras :
             \/ DisableCamera(c) \/ EnableCamera(c)
             \/ RemoveCamera(c) \/ AddCamera(c) \/ ResizeCamera(c)
  BY <1>1, <1>9, DisableStep, EnableStep, RemoveStep, AddStep, ResizeStep
<1>10. CASE Restart
  BY <1>1, <1>10, RestartStep
<1>11. CASE UNCHANGED vars
  <2>1. UNCHANGED <<used, batches, prev, tracked, mail, inProcess, row, finished,
                    disturbed, seen, enabled, configured, known, states, updates,
                    orders, cleaning, resized, tracker>>
    BY <1>11 DEF vars
  <2>2. \A c \in Cameras : Configured(c) => Configured(c)'
    BY <2>1, StillConfigured
  <2> QED
    BY <1>1, <2>1, <2>2, Idle DEF Follows
<1> QED
  BY <1>2, <1>3, <1>4, <1>5, <1>6, <1>7, <1>8, <1>9, <1>10, <1>11
     DEF Next, ObjectProcessor, Detect

LEMMA Invariant == Spec => []Inv
  BY InitInv, StepInv, PTL DEF Spec

-----------------------------------------------------------------------------
(* What the invariant shows *)

(* The object processor's thread lives as long as no camera is disturbed:  *)
(* it forgets only objects that it has, and finds the configuration of     *)
(* every camera that was added (object_processing.py:724, :854).           *)
THEOREM Survives == Spec => []ProcessorSurvives
<1>1. Inv => ProcessorSurvives
  BY DEF Inv
<1> QED
  BY <1>1, Invariant, PTL

(* events_in_process (maintainer.py:120) holds no event that nobody will   *)
(* end: its object is still tracked, or the end is on its way.             *)
THEOREM WillEnd == Spec => []EventsInProcessWillEnd
<1>1. Inv => EventsInProcessWillEnd
  BY DEF Inv, Undisturbed, Phase, Quiet, EventsInProcessWillEnd
<1> QED
  BY <1>1, Invariant, PTL

(* A row of the database that has an end keeps it: no message about the    *)
(* event is still on its way when the end is written (maintainer.py:230).  *)
THEOREM EndedFinal == Spec => EndedEventsAreFinal
<1> DEFINE Final == \A c \in Cameras, n \in Objects :
                      row[c][n] = "ended" /\ ~disturbed'[c] => row'[c][n] = "ended"
<1>1. Inv /\ [Next]_vars => Final
  <2> SUFFICES ASSUME Inv, [Next]_vars, NEW c \in Cameras, NEW n \in Objects,
                      row[c][n] = "ended", ~disturbed'[c]
               PROVE  row'[c][n] = "ended"
    OBVIOUS
  <2>1. TypeOK /\ Births /\ Undisturbed
    BY DEF Inv
  <2>2. CASE \E d \in Cameras, k \in Objects : HandleEvent(d, k)
    <3>1. PICK d \in Cameras, k \in Objects : HandleEvent(d, k)
      BY <2>2
    <3>2. ~disturbed[c]
      BY <3>1 DEF HandleEvent
    <3>3. <<c, n>> # <<d, k>>
      BY <2>1, <3>1, <3>2, HandleStep DEF Flow
    <3>4. row'[c][n] = row[c][n]
      BY <2>1, <3>1, <3>3, EventHandled
    <3> QED
      BY <3>4
  <2>3. CASE \E d \in Cameras : CleanCamera(d)
    <3>1. PICK d \in Cameras : CleanCamera(d)
      BY <2>3
    <3>2. cleaning[d] /\ disturbed' = disturbed
      BY <3>1 DEF CleanCamera
    <3>3. c # d
      BY <2>1, <3>2 DEF Undisturbed, Configured
    <3>4. row'[c] = row[c]
      BY <2>1, <3>1, <3>3 DEF CleanCamera, TypeOK
    <3> QED
      BY <3>4
  <2>4. CASE Restart
    BY <2>4 DEF Restart
  <2>5. CASE /\ ~Restart /\ ~\E d \in Cameras : CleanCamera(d)
             /\ ~\E d \in Cameras, k \in Objects : HandleEvent(d, k)
    <3>1. row' = row
      BY <2>5
         DEF Next, ObjectProcessor, Detect, Frame, NoticeEnabled, MaintainCamera,
             FailToAdd, ApplyUpdates, NoFrame, SkipFrame, TakeFrame, ForgetObject,
             NoneFinished, DisableCamera, EnableCamera, RemoveCamera, AddCamera,
             ResizeCamera, vars, eventVars
    <3> QED
      BY <3>1
  <2> QED
    BY <2>2, <2>3, <2>4, <2>5
<1>2. Inv /\ [Next]_vars => [Final]_vars
  BY <1>1
<1> QED
  BY <1>2, Invariant, PTL DEF Spec, EndedEventsAreFinal
-----------------------------------------------------------------------------
(* What is kept of an object, and what was taken back of it *)

(* What the event processor has stored of an event, or a message on its    *)
(* way, says that something of the object is kept.                         *)
EventKept(c, n) == inProcess[c][n] # None /\ inProcess[c][n].kept
MailKept(c, n) == \E i \in 1..Len(mail[c][n]) : mail[c][n][i].kept

(* Update i says that nothing is kept, behind one that said the contrary.  *)
Withdraws(c, n, i) ==
  /\ mail[c][n][i].type = "update" /\ ~mail[c][n][i].kept
  /\ EventKept(c, n) \/ \E j \in 1..Len(mail[c][n]) : j < i /\ mail[c][n][j].kept

(* What was kept of an active object is kept or was taken back; so was     *)
(* what an update withdraws, unless a message behind it says that it is    *)
(* kept; and an open row is that of an event whose object is kept, by what *)
(* is stored or on its way, or was taken back.                             *)
KeptChain(c, n) ==
  /\ tracked[c][n] = "active" /\ (EventKept(c, n) \/ MailKept(c, n))
       => n \in kept[c] \/ n \in takenBack[c]
  /\ \A i \in 1..Len(mail[c][n]) : Withdraws(c, n, i) =>
       n \in takenBack[c] \/ \E k \in 1..Len(mail[c][n]) : i < k /\ mail[c][n][k].kept
  /\ row[c][n] = "open" /\ n \notin takenBack[c] => EventKept(c, n) \/ MailKept(c, n)
Chained == \A c \in Cameras : ~disturbed[c] => \A n \in Objects : KeptChain(c, n)

(* What is kept stays kept when the life is the same,                      *)
LEMMA ChainLasts ==
  ASSUME NEW c \in Cameras, NEW n \in Objects, SameLife(c, n), KeptChain(c, n),
         tracked[c][n] = "active" /\ n \in kept[c] => n \in kept'[c],
         n \in takenBack'[c] <=> n \in takenBack[c]
  PROVE  KeptChain(c, n)'
<1>1. /\ EventKept(c, n)' <=> EventKept(c, n)
      /\ MailKept(c, n)' <=> MailKept(c, n)
      /\ \A i : Withdraws(c, n, i)' <=> Withdraws(c, n, i)
  BY DEF EventKept, MailKept, Withdraws, SameLife
<1> QED
  BY <1>1 DEF KeptChain, SameLife

(* A message that is sent tells what is kept by then. *)
LEMMA ChainSent ==
  ASSUME TypeOK, NEW c \in Cameras, NEW n \in Objects, NEW m \in Message,
         mail'[c][n] = Append(mail[c][n], m), KeptChain(c, n),
         inProcess'[c][n] = inProcess[c][n], row'[c][n] = row[c][n],
         n \in takenBack[c] => n \in takenBack'[c] \/ m.kept,
         m.type = "update" /\ ~m.kept /\ (EventKept(c, n) \/ MailKept(c, n))
           => n \in takenBack'[c],
         tracked'[c][n] = "active" /\ (EventKept(c, n) \/ MailKept(c, n) \/ m.kept)
           => n \in kept'[c] \/ n \in takenBack'[c]
  PROVE  KeptChain(c, n)'
<1>1. mail[c][n] \in Seq(Message)
  BY DEF TypeOK
<1>2. /\ Len(mail[c][n]) \in Nat /\ Len(mail'[c][n]) = Len(mail[c][n]) + 1
      /\ \A i \in 1..Len(mail[c][n]) : mail'[c][n][i] = mail[c][n][i]
      /\ mail'[c][n][Len(mail[c][n]) + 1] = m
  BY <1>1, Elements, Appended
<1>3. \A i \in 1..Len(mail'[c][n]) :
        \/ i \in 1..Len(mail[c][n]) /\ mail'[c][n][i] = mail[c][n][i]
        \/ i = Len(mail'[c][n]) /\ mail'[c][n][i] = m
  BY <1>2
<1>4. EventKept(c, n)' <=> EventKept(c, n)
  BY DEF EventKept
<1>5. MailKept(c, n)' <=> MailKept(c, n) \/ m.kept
  <2>1. MailKept(c, n)' => MailKept(c, n) \/ m.kept
    BY <1>3 DEF MailKept
  <2>2. MailKept(c, n) => MailKept(c, n)'
    BY <1>2 DEF MailKept
  <2>3. m.kept => MailKept(c, n)'
    BY <1>2 DEF MailKept
  <2> QED
    BY <2>1, <2>2, <2>3
<1>6. ASSUME NEW i \in 1..Len(mail'[c][n]), Withdraws(c, n, i)'
      PROVE  n \in takenBack'[c]
               \/ \E k \in 1..Len(mail'[c][n]) : i < k /\ mail'[c][n][k].kept
  <2>1. /\ mail'[c][n][i].type = "update" /\ ~mail'[c][n][i].kept
        /\ EventKept(c, n)
             \/ \E j \in 1..Len(mail'[c][n]) : j < i /\ mail'[c][n][j].kept
    BY <1>4, <1>6 DEF Withdraws
  <2>2. EventKept(c, n)
          \/ \E j \in 1..Len(mail[c][n]) : j < i /\ mail[c][n][j].kept
    <3>1. \A j \in 1..Len(mail'[c][n]) : j < i =>
            j \in 1..Len(mail[c][n]) /\ mail'[c][n][j] = mail[c][n][j]
      BY <1>2
    <3> QED
      BY <2>1, <3>1
  <2>3. CASE i \in 1..Len(mail[c][n])
    <3>1. Withdraws(c, n, i)
      BY <1>2, <2>1, <2>2, <2>3 DEF Withdraws
    <3>2. CASE n \in takenBack[c] /\ m.kept
      <4>1. /\ Len(mail[c][n]) + 1 \in 1..Len(mail'[c][n])
            /\ i < Len(mail[c][n]) + 1 /\ mail'[c][n][Len(mail[c][n]) + 1].kept
        BY <1>2, <2>3, <3>2
      <4> QED
        BY <4>1
    <3>3. CASE \E k \in 1..Len(mail[c][n]) : i < k /\ mail[c][n][k].kept
      BY <1>2, <3>3
    <3> QED
      BY <2>3, <3>1, <3>2, <3>3 DEF KeptChain
  <2>4. CASE i \notin 1..Len(mail[c][n])
    <3>1. mail'[c][n][i] = m
      BY <1>3, <2>4
    <3> QED
      BY <2>1, <2>2, <3>1 DEF MailKept
  <2> QED
    BY <2>3, <2>4
<1>7. row'[c][n] = "open" /\ n \notin takenBack'[c]
        => EventKept(c, n)' \/ MailKept(c, n)'
  BY <1>4, <1>5 DEF KeptChain
<1> QED
  BY <1>4, <1>5, <1>6, <1>7 DEF KeptChain

(* when the object ends,                                                   *)
LEMMA ChainEnds ==
  ASSUME TypeOK, NEW c \in Cameras, NEW n \in Objects, KeptChain(c, n),
         tracked[c][n] = "active", Ends(c, n),
         inProcess'[c][n] = inProcess[c][n], row'[c][n] = row[c][n]
  PROVE  KeptChain(c, n)'
<1> DEFINE m == [type |-> "end", kept |-> n \in kept'[c], over |-> TRUE]
<1>1. m \in Message /\ m.type = "end" /\ (m.kept <=> n \in kept'[c])
  <2>1. m \in Message /\ m.type = "end"
    BY DEF Message
  <2>2. m.kept = (n \in kept'[c])
    OBVIOUS
  <2> QED
    BY <2>1, <2>2
<1>2. /\ tracked'[c][n] = "ended" /\ mail'[c][n] = Append(mail[c][n], m)
      /\ n \in takenBack[c] => n \in takenBack'[c] \/ n \in kept'[c]
  BY DEF Ends
<1> HIDE DEF m
<1>3. n \in takenBack[c] => n \in takenBack'[c] \/ m.kept
  BY <1>1, <1>2
<1>4. m.type # "update" /\ tracked'[c][n] # "active"
  BY <1>1, <1>2
<1> QED
  BY <1>1, <1>2, <1>3, <1>4, ChainSent

(* and when a message is handled.                                          *)
LEMMA ChainHandled ==
  ASSUME TypeOK, NEW c \in Cameras, NEW n \in Objects, HandleEvent(c, n),
         Flow(c, n), known[c], KeptChain(c, n)
  PROVE  KeptChain(c, n)'
<1> DEFINE m == Head(mail[c][n])
<1>1. InOrder(c, n, m)
  BY HeadOfFlow
<1>2. /\ tracked'[c][n] = tracked[c][n] /\ kept'[c] = kept[c]
      /\ takenBack'[c] = takenBack[c]
  BY DEF HandleEvent, objectVars
<1> HIDE DEF m
<1>3. /\ \A i \in 1..Len(mail'[c][n]) :
           /\ i + 1 \in 1..Len(mail[c][n]) /\ 1 < i + 1
           /\ mail'[c][n][i] = mail[c][n][i + 1]
      /\ \A i \in 1..Len(mail[c][n]) : i # 1 =>
           /\ i - 1 \in 1..Len(mail'[c][n]) /\ mail'[c][n][i - 1] = mail[c][n][i]
      /\ 1 \in 1..Len(mail[c][n]) /\ m = mail[c][n][1]
      /\ m.kept \in BOOLEAN /\ m.over \in BOOLEAN
  <2>1. /\ Len(mail[c][n]) \in Nat /\ Len(mail'[c][n]) = Len(mail[c][n]) - 1
        /\ \A i \in 1..(Len(mail[c][n]) - 1) : mail'[c][n][i] = mail[c][n][i + 1]
    BY <1>1 DEF InOrder
  <2>2. ASSUME NEW i \in 1..Len(mail[c][n]), i # 1
        PROVE  i - 1 \in 1..Len(mail'[c][n]) /\ mail'[c][n][i - 1] = mail[c][n][i]
    <3>1. i - 1 \in 1..(Len(mail[c][n]) - 1) /\ (i - 1) + 1 = i
      BY <2>1, <2>2
    <3>2. mail'[c][n][i - 1] = mail[c][n][(i - 1) + 1]
      BY <2>1, <3>1
    <3> QED
      BY <2>1, <3>1, <3>2
  <2>3. \A i \in 1..Len(mail'[c][n]) :
           /\ i + 1 \in 1..Len(mail[c][n]) /\ 1 < i + 1
           /\ mail'[c][n][i] = mail[c][n][i + 1]
    BY <2>1
  <2> QED
    BY <1>1, <2>2, <2>3 DEF InOrder
<1>4. EventKept(c, n)' => EventKept(c, n) \/ m.kept
  <2>1. \A k \in BOOLEAN : [kept |-> k, over |-> m.over].kept = k
    OBVIOUS
  <2>2. inProcess[c][n] # None => inProcess[c][n].kept \in BOOLEAN
    BY <1>1 DEF InOrder
  <2>3. CASE Stored(c, n, m)
    BY <2>3 DEF Stored, EventKept
  <2>4. CASE Written(c, n, m)
    <3> DEFINE k == m.kept \/ inProcess[c][n].kept
    <3>1. k \in BOOLEAN /\ inProcess[c][n] # None
      BY <2>4 DEF Written
    <3>2. inProcess'[c][n] = None \/ inProcess'[c][n] = [kept |-> k, over |-> m.over]
      BY <2>4 DEF Written
    <3>3. EventKept(c, n)' => k
      <4> HIDE DEF k
      <4> QED
        BY <2>1, <3>1, <3>2 DEF EventKept
    <3> QED
      BY <3>1, <3>3 DEF EventKept
  <2>5. CASE Passed(c, n, m)
    BY <2>5 DEF Passed, EventKept
  <2> QED
    BY <1>1, <2>3, <2>4, <2>5 DEF InOrder
<1>5. MailKept(c, n)' => MailKept(c, n)
  BY <1>3 DEF MailKept
<1>6. MailKept(c, n) => MailKept(c, n)' \/ m.kept
  BY <1>3 DEF MailKept
<1>7. ASSUME NEW i \in 1..Len(mail'[c][n]), Withdraws(c, n, i)'
      PROVE  n \in takenBack[c]
               \/ \E k \in 1..Len(mail'[c][n]) : i < k /\ mail'[c][n][k].kept
  <2>1. /\ mail'[c][n][i].type = "update" /\ ~mail'[c][n][i].kept
        /\ EventKept(c, n)'
             \/ \E j \in 1..Len(mail'[c][n]) : j < i /\ mail'[c][n][j].kept
    BY <1>7 DEF Withdraws
  <2>2. EventKept(c, n)
          \/ \E j \in 1..Len(mail[c][n]) : j < i + 1 /\ mail[c][n][j].kept
    <3>1. CASE EventKept(c, n)'
      <4>1. m.kept => mail[c][n][1].kept /\ 1 < i + 1 /\ 1 \in 1..Len(mail[c][n])
        BY <1>3
      <4> QED
        BY <1>4, <3>1, <4>1
    <3>2. CASE \E j \in 1..Len(mail'[c][n]) : j < i /\ mail'[c][n][j].kept
      <4>1. PICK j \in 1..Len(mail'[c][n]) : j < i /\ mail'[c][n][j].kept
        BY <3>2
      <4>2. j + 1 \in 1..Len(mail[c][n]) /\ mail[c][n][j + 1].kept
        BY <1>3, <4>1
      <4>3. j + 1 < i + 1
        BY <4>1
      <4> QED
        BY <4>2, <4>3
    <3> QED
      BY <2>1, <3>1, <3>2
  <2>3. i + 1 \in 1..Len(mail[c][n]) /\ Withdraws(c, n, i + 1)
    BY <1>3, <2>1, <2>2 DEF Withdraws
  <2>4. ASSUME NEW k \in 1..Len(mail[c][n]), i + 1 < k, mail[c][n][k].kept
        PROVE  \E h \in 1..Len(mail'[c][n]) : i < h /\ mail'[c][n][h].kept
    <3>1. k # 1 /\ i < k - 1
      BY <2>4
    <3> QED
      BY <1>3, <2>4, <3>1
  <2> QED
    BY <2>3, <2>4 DEF KeptChain
<1>8. ASSUME row'[c][n] = "open", n \notin takenBack[c]
      PROVE  EventKept(c, n)' \/ MailKept(c, n)'
  <2>0. \A k, o \in BOOLEAN : [kept |-> k, over |-> o] # None
    <3>1. \A k, o \in BOOLEAN : [kept |-> k, over |-> o] \in Event
      BY DEF Event
    <3> QED
      BY <3>1, NoneAssumption
  <2>1. CASE m.type = "start"
    BY <1>1, <1>8, <2>1 DEF InOrder, Stored
  <2>2. CASE m.type = "update" /\ Written(c, n, m)
    <3>1. m.over = FALSE
      BY <1>1, <1>3, <2>2 DEF InOrder
    <3>2. m.kept
      BY <2>2, <3>1 DEF Written, DbUpdateDue
    <3>3. inProcess'[c][n] = [kept |-> TRUE, over |-> FALSE]
      BY <1>3, <2>2, <3>1, <3>2 DEF Written
    <3>4. [kept |-> TRUE, over |-> FALSE] # None
      BY <2>0
    <3> QED
      BY <3>3, <3>4 DEF EventKept
  <2>3. CASE m.type = "update" /\ Passed(c, n, m)
    <3>1. EventKept(c, n) \/ MailKept(c, n)
      BY <1>8, <2>3 DEF Passed, KeptChain
    <3>2. CASE MailKept(c, n)'
      BY <3>2
    <3>3. CASE ~MailKept(c, n)'
      <4>1. m.kept => EventKept(c, n)
        BY <2>3 DEF Passed, DbUpdateDue, EventKept
      <4>2. EventKept(c, n)
        BY <1>6, <3>1, <3>3, <4>1
      <4>3. m.kept = TRUE
        <5>1. ASSUME ~m.kept PROVE FALSE
          <6>1. Withdraws(c, n, 1)
            BY <1>3, <2>3, <4>2, <5>1 DEF Withdraws
          <6>2. PICK k \in 1..Len(mail[c][n]) : 1 < k /\ mail[c][n][k].kept
            BY <1>3, <1>8, <6>1 DEF KeptChain
          <6>3. k # 1
            BY <6>2
          <6>4. k - 1 \in 1..Len(mail'[c][n]) /\ mail'[c][n][k - 1].kept
            BY <1>3, <6>2, <6>3
          <6> QED
            BY <3>3, <6>4 DEF MailKept
        <5> QED
          BY <1>3, <5>1
      <4>4. [kept |-> TRUE, over |-> m.over] # None
        BY <1>3, <2>0
      <4>5. inProcess'[c][n] \in {inProcess[c][n], [kept |-> TRUE, over |-> m.over]}
        BY <2>3, <4>3 DEF Passed
      <4> QED
        BY <4>2, <4>4, <4>5 DEF EventKept
    <3> QED
      BY <3>2, <3>3
  <2>4. CASE m.type = "end"
    <3>1. m.over = TRUE /\ Len(mail[c][n]) = 1
      BY <1>1, <1>3, <2>4 DEF InOrder
    <3>2. Passed(c, n, m)
      BY <1>1, <1>8, <2>4, <3>1 DEF InOrder, Written
    <3>3. EventKept(c, n) \/ m.kept
      <4>1. EventKept(c, n) \/ MailKept(c, n)
        BY <1>8, <3>2 DEF Passed, KeptChain
      <4>2. MailKept(c, n) => m.kept
        BY <1>3, <3>1 DEF MailKept
      <4> QED
        BY <4>1, <4>2
    <3>4. inProcess[c][n] # None /\ ~inProcess[c][n].over
      BY <1>1, <3>2 DEF InOrder, Passed
    <3>5. DbUpdateDue(inProcess[c][n], m)
      BY <3>1, <3>3, <3>4 DEF DbUpdateDue, EventKept
    <3> QED
      BY <3>2, <3>5 DEF Passed
  <2> QED
    BY <1>1, <2>1, <2>2, <2>3, <2>4 DEF InOrder
<1>9. m.kept => MailKept(c, n)
  BY <1>3 DEF MailKept
<1>10. EventKept(c, n)' \/ MailKept(c, n)' => EventKept(c, n) \/ MailKept(c, n)
  BY <1>4, <1>5, <1>9
<1> QED
  BY <1>2, <1>7, <1>8, <1>10 DEF KeptChain

(* A frame of the camera, with or without the object. *)
LEMMA ChainTaken ==
  ASSUME Inv, TakeFrame, NEW c \in Cameras, ~disturbed[c],
         NEW n \in Objects, KeptChain(c, n)
  PROVE  KeptChain(c, n)'
<1> DEFINE ids == Head(batches)[2]
<1>1. /\ TypeOK /\ Configured(c) /\ NoReturn(c, n) /\ Phase(c, n)
      /\ tracked[c][n] \in {"absent", "active", "ended"}
  BY DEF Inv, Undisturbed, TypeOK
<1>2. CASE c # Head(batches)[1]
  <2>1. SameLife(c, n) /\ kept'[c] = kept[c] /\ takenBack'[c] = takenBack[c]
    BY <1>1, <1>2, FrameOf
  <2> QED
    BY <2>1, ChainLasts
<1>3. CASE c = Head(batches)[1]
  <2>1. /\ FrameTaken(c, n, n \in ids, tracked[c][n]) /\ enabled[c]
        /\ inProcess'[c][n] = inProcess[c][n] /\ row'[c][n] = row[c][n]
        /\ finished'[c][n] = finished[c][n]
    BY <1>1, <1>3, FrameOf DEF Configured
  <2>2. n \in ids => ~Done(c, n)
    <3>1. batches # <<>> /\ batches \in Seq(Cameras \X SUBSET Objects)
      BY <1>1 DEF TakeFrame, TypeOK
    <3>2. Len(batches) \in Nat /\ Len(batches) >= 1 /\ Head(batches) = batches[1]
      BY <3>1, Elements, Shifted
    <3>3. n \in ids => In(c, n, 1)
      BY <1>3, <3>2 DEF In
    <3>4. 1 \in 1..Len(batches) /\ 1 > 0
      BY <3>2
    <3> QED
      BY <1>1, <2>1, <3>3, <3>4 DEF NoReturn, Gone
  <2> HIDE DEF ids
  <2>3. CASE Stays(c, n, tracked[c][n])
    <3>1. SameLife(c, n)
      BY <2>1, <2>3 DEF Stays, SameLife
    <3>2. /\ n \in kept[c] => n \in kept'[c]
          /\ n \in takenBack'[c] <=> n \in takenBack[c]
      BY <2>3 DEF Stays
    <3> QED
      BY <3>1, <3>2, ChainLasts
  <2>4. CASE n \in ids /\ tracked[c][n] = "absent"
    <3> DEFINE m == [type |-> "start", kept |-> FALSE, over |-> FALSE]
    <3>1. m \in Message /\ m.type = "start" /\ m.kept = FALSE
      BY DEF Message
    <3>2. mail'[c][n] = Append(mail[c][n], m)
      BY <2>1, <2>4 DEF FrameTaken, Starts
    <3>3. /\ mail[c][n] = <<>> /\ inProcess[c][n] = None /\ row[c][n] # "open"
      BY <1>1, <2>2, <2>4 DEF Phase, Quiet, Done
    <3> HIDE DEF m
    <3>4. /\ Len(mail'[c][n]) = 1 /\ mail'[c][n][1] = m
      BY <3>2, <3>3
    <3>5. ~EventKept(c, n)' /\ ~MailKept(c, n)'
      BY <2>1, <3>1, <3>3, <3>4 DEF EventKept, MailKept
    <3>6. \A i \in 1..Len(mail'[c][n]) : ~Withdraws(c, n, i)'
      BY <3>1, <3>4 DEF Withdraws
    <3> QED
      BY <2>1, <3>3, <3>5, <3>6 DEF KeptChain
  <2>5. CASE n \in ids /\ tracked[c][n] # "absent" /\ SendsUpdate(c, n, tracked[c][n])
    <3> DEFINE m == [type |-> "update", kept |-> n \in kept'[c],
                     over |-> tracked[c][n] = "ended"]
    <3>1. m \in Message /\ (m.kept <=> n \in kept'[c])
      <4>1. m \in Message
        BY DEF Message
      <4>2. m.kept = (n \in kept'[c])
        OBVIOUS
      <4> QED
        BY <4>1, <4>2
    <3>2. /\ mail'[c][n] = Append(mail[c][n], m) /\ tracked'[c][n] = tracked[c][n]
          /\ n \in takenBack'[c] <=>
               (n \in takenBack[c] \/ n \in kept[c]) /\ n \notin kept'[c]
      BY <2>5 DEF SendsUpdate
    <3>3. tracked[c][n] = "active"
      BY <1>1, <2>2, <2>5 DEF Done
    <3>4. EventKept(c, n) \/ MailKept(c, n) => n \in kept[c] \/ n \in takenBack[c]
      BY <3>3 DEF KeptChain
    <3> HIDE DEF m
    <3>5. /\ n \in takenBack[c] => n \in takenBack'[c] \/ m.kept
          /\ ~m.kept /\ (EventKept(c, n) \/ MailKept(c, n)) => n \in takenBack'[c]
          /\ EventKept(c, n) \/ MailKept(c, n) \/ m.kept
               => n \in kept'[c] \/ n \in takenBack'[c]
      BY <3>1, <3>2, <3>4
    <3> QED
      BY <1>1, <2>1, <3>1, <3>2, <3>5, ChainSent
  <2>6. CASE n \notin ids /\ tracked[c][n] = "active"
    <3>1. Ends(c, n)
      BY <2>1, <2>6 DEF FrameTaken
    <3> QED
      BY <1>1, <2>1, <2>6, <3>1, ChainEnds
  <2> QED
    BY <2>1, <2>3, <2>4, <2>5, <2>6 DEF FrameTaken
<1> QED
  BY <1>2, <1>3

(* So it does in every step.                                               *)
LEMMA ChainStep ==
  ASSUME Inv, Chained, [Next]_vars
  PROVE  Chained'
<1>1. TypeOK /\ Births /\ Undisturbed
  BY DEF Inv
<1>2. CASE Restart
  <2>1. \A c \in Cameras, n \in Objects :
          /\ mail'[c][n] = <<>> /\ inProcess'[c][n] = None /\ row'[c][n] # "open"
    BY <1>1, <1>2 DEF Restart, All, PerObject, TypeOK
  <2>2. \A c \in Cameras, n \in Objects : Len(mail'[c][n]) = 0
    BY <2>1
  <2> QED
    BY <2>1, <2>2 DEF Chained, KeptChain, EventKept, MailKept, Withdraws
<1>3. CASE ~Restart
  <2>1. ASSUME NEW c \in Cameras, ~disturbed'[c], NEW n \in Objects
        PROVE  KeptChain(c, n)'
    <3>1. ~disturbed[c] /\ KeptChain(c, n) /\ Configured(c)
      BY <1>1, <1>3, <2>1, StillDisturbed DEF Chained, Undisturbed
    <3>2. CASE TakeFrame
      BY <3>1, <3>2, ChainTaken
    <3>3. CASE ApplyUpdates
      <4>1. /\ SameLife(c, n) \/ ForcedToEnd(c, n)
            /\ SameLife(c, n) =>
                 /\ n \in kept[c] /\ tracked[c][n] = "active" => n \in kept'[c]
                 /\ n \in takenBack'[c] <=> n \in takenBack[c]
        BY <1>1, <3>1, <3>3, UpdatesApplied
      <4>2. CASE SameLife(c, n)
        BY <3>1, <4>1, <4>2, ChainLasts
      <4>3. CASE ForcedToEnd(c, n)
        BY <1>1, <3>1, <4>3, ChainEnds DEF ForcedToEnd
      <4> QED
        BY <4>1, <4>2, <4>3
    <3>4. CASE \E d \in Cameras, k \in Objects : ForgetObject(d, k)
      <4>1. /\ UNCHANGED <<kept, takenBack, mail, inProcess, row>>
            /\ tracked'[c][n] \in {tracked[c][n], "absent"}
        <5>1. PICK d \in Cameras, k \in Objects : ForgetObject(d, k)
          BY <3>4
        <5>2. /\ UNCHANGED <<kept, takenBack, mail, inProcess, row>>
              /\ \/ tracked' = tracked
                 \/ tracked' = [tracked EXCEPT ![d][k] = "absent"]
          BY <5>1 DEF ForgetObject, eventVars
        <5>3. tracked \in [Cameras -> [Objects -> {"absent", "active", "ended"}]]
          BY <1>1 DEF TypeOK
        <5> QED
          BY <5>2, <5>3
      <4>2. /\ EventKept(c, n)' <=> EventKept(c, n)
            /\ MailKept(c, n)' <=> MailKept(c, n)
            /\ \A i : Withdraws(c, n, i)' <=> Withdraws(c, n, i)
        BY <4>1 DEF EventKept, MailKept, Withdraws
      <4> QED
        BY <3>1, <4>1, <4>2 DEF KeptChain
    <3>5. CASE \E d \in Cameras, k \in Objects : HandleEvent(d, k)
      <4>1. PICK d \in Cameras, k \in Objects : HandleEvent(d, k)
        BY <3>5
      <4>2. CASE c = d /\ n = k
        <5>1. Flow(c, n) /\ known[c]
          BY <1>1, <3>1, <4>1, <4>2, HandleStep
        <5> QED
          BY <1>1, <3>1, <4>1, <4>2, <5>1, ChainHandled
      <4>3. CASE ~(c = d /\ n = k)
        <5>1. <<c, n>> # <<d, k>> /\ UNCHANGED <<tracked, kept, takenBack>>
          BY <4>1, <4>3 DEF HandleEvent, objectVars
        <5>2. SameLife(c, n)
          BY <1>1, <4>1, <5>1, EventHandled DEF SameLife
        <5> QED
          BY <3>1, <5>1, <5>2, ChainLasts
      <4> QED
        BY <4>2, <4>3
    <3>6. CASE \E d \in Cameras : CleanCamera(d)
      <4>1. PICK d \in Cameras : CleanCamera(d)
        BY <3>6
      <4>2. /\ UNCHANGED <<tracked, kept, takenBack, mail, inProcess, finished>>
            /\ cleaning[d]
            /\ row' = [row EXCEPT ![d] = [k \in Objects |-> "none"]]
        BY <4>1 DEF CleanCamera, objectVars
      <4>3. row'[c] = row[c]
        BY <1>1, <3>1, <4>2 DEF Configured, TypeOK
      <4>4. SameLife(c, n)
        BY <4>2, <4>3 DEF SameLife
      <4> QED
        BY <3>1, <4>2, <4>4, ChainLasts
    <3>7. CASE /\ ~TakeFrame /\ ~ApplyUpdates
               /\ ~\E d \in Cameras, k \in Objects : ForgetObject(d, k)
               /\ ~\E d \in Cameras, k \in Objects : HandleEvent(d, k)
               /\ ~\E d \in Cameras : CleanCamera(d)
      <4>1. UNCHANGED <<tracked, kept, takenBack, mail, inProcess, row, finished>>
        BY <1>3, <3>7
           DEF Next, ObjectProcessor, Detect, Frame, NoticeEnabled, MaintainCamera,
               FailToAdd, NoFrame, SkipFrame, NoneFinished, DisableCamera,
               EnableCamera, RemoveCamera, AddCamera, ResizeCamera, vars, objectVars,
               eventVars
      <4>2. SameLife(c, n)
        BY <4>1 DEF SameLife
      <4> QED
        BY <3>1, <4>1, <4>2, ChainLasts
    <3> QED
      BY <3>2, <3>3, <3>4, <3>5, <3>6, <3>7
  <2> QED
    BY <2>1 DEF Chained
<1> QED
  BY <1>2, <1>3

LEMMA InitChain == Init => Chained
<1> SUFFICES ASSUME Init PROVE Chained
  OBVIOUS
<1>1. /\ mail = PerObject(<<>>) /\ inProcess = PerObject(None) /\ row = PerObject("none")
  BY DEF Init
<1>2. \A x : \A c \in Cameras, n \in Objects : PerObject(x)[c][n] = x
  BY DEF PerObject, All
<1>3. \A c \in Cameras, n \in Objects :
        mail[c][n] = <<>> /\ inProcess[c][n] = None /\ row[c][n] = "none"
  BY <1>1, <1>2
<1>4. \A c \in Cameras, n \in Objects : Len(mail[c][n]) = 0
  BY <1>3
<1> QED
  BY <1>3, <1>4 DEF Chained, KeptChain, EventKept, MailKept, Withdraws

(* No row of the database stays without an end: its object is still        *)
(* tracked, or the end is on its way and will be written                   *)
(* (maintainer.py:150), unless an update took back what was kept and       *)
(* nothing since has said that it is kept after all (maintainer.py:294).   *)
THEOREM OpenTracked == Spec => []OpenEventIsTracked
<1>1. Spec => [](Inv /\ Chained)
  <2>1. Init => Inv /\ Chained
    BY InitInv, InitChain
  <2>2. Inv /\ Chained /\ [Next]_vars => Inv' /\ Chained'
    BY StepInv, ChainStep
  <2> QED
    BY <2>1, <2>2, PTL DEF Spec
<1>2. Inv /\ Chained => OpenEventIsTracked
  <2> SUFFICES ASSUME Inv, Chained, NEW c \in Cameras, NEW n \in Objects,
                      row[c][n] = "open", ~disturbed[c], n \notin takenBack[c]
               PROVE  tracked[c][n] = "active" \/ Ending(c, n)
    BY DEF OpenEventIsTracked
  <2>1. Phase(c, n) /\ KeptChain(c, n)
    BY DEF Inv, Undisturbed, Chained
  <2>2. EventKept(c, n) \/ MailKept(c, n)
    BY <2>1 DEF KeptChain
  <2>3. Len(<<>>) = 0
    OBVIOUS
  <2>4. ~Quiet(c, n)
    BY <2>2, <2>3 DEF Quiet, EventKept, MailKept
  <2> QED
    BY <2>1, <2>4 DEF Phase
<1> QED
  BY <1>1, <1>2, PTL
=============================================================================
