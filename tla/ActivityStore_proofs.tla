------------------------- MODULE ActivityStore_proofs -------------------------
(***************************************************************************)
(* Proofs about ActivityStore, for any objects and any bounds.             *)
(***************************************************************************)
EXTENDS ActivityStore, TLAPS

(* Nothing waits while the socket is open, nothing is under way while it   *)
(* is not, and only a mounted component on an open socket is in step.      *)
WireIsSound ==
  /\ socket = "open" => pending = <<>>
  /\ socket # "open" => reqs = <<>> /\ link = <<>>
  /\ inStep => mounted /\ socket = "open"

(* What waits is one message of each topic. *)
OneOfEach(p) ==
  \A i, j \in DOMAIN p : (p[i] = onConnect <=> p[j] = onConnect) => i = j

(* Commands wait and travel in the order in which they were given.         *)
CommandsInOrder ==
  /\ \A i \in DOMAIN pending :
        pending[i] # onConnect => executed <= pending[i] /\ pending[i] <= commands
  /\ \A i \in DOMAIN reqs :
        reqs[i] # onConnect => executed <= reqs[i] /\ reqs[i] <= commands
  /\ \A i, j \in DOMAIN reqs :
        i < j /\ reqs[i] # onConnect /\ reqs[j] # onConnect => reqs[i] <= reqs[j]

TypeInv == TypeOK /\ WireIsSound /\ OneOfEach(pending) /\ CommandsInOrder

LEMMA Constants ==
  /\ MaxChanges \in Nat /\ MaxDrops \in Nat /\ MaxLink \in Nat /\ MaxReqs \in Nat
  /\ onConnect \in Requests /\ onConnect = 0
  BY StoreAssumption DEF onConnect, Requests

(* What is in a sequence, behind and before what it had. *)
LEMMA Elements ==
  ASSUME NEW S, NEW q \in Seq(S)
  PROVE  /\ Len(q) \in Nat /\ DOMAIN q = 1..Len(q)
         /\ \A i \in 1..Len(q) : q[i] \in S
  OBVIOUS

LEMMA Appended ==
  ASSUME NEW S, NEW q \in Seq(S), NEW e \in S
  PROVE  /\ Append(q, e) \in Seq(S) /\ Len(Append(q, e)) = Len(q) + 1
         /\ DOMAIN Append(q, e) = 1..(Len(q) + 1)
         /\ \A i \in 1..Len(q) : Append(q, e)[i] = q[i]
         /\ Append(q, e)[Len(q) + 1] = e
  OBVIOUS

LEMMA Shifted ==
  ASSUME NEW S, NEW q \in Seq(S), q # <<>>
  PROVE  /\ Len(q) >= 1 /\ Head(q) = q[1] /\ Head(q) \in S
         /\ Tail(q) \in Seq(S) /\ Len(Tail(q)) = Len(q) - 1
         /\ DOMAIN Tail(q) = 1..(Len(q) - 1)
         /\ \A i \in 1..(Len(q) - 1) : Tail(q)[i] = q[i + 1]
  OBVIOUS

(* Put replaces the message of the same topic or adds one.                 *)
LEMMA PutOne ==
  ASSUME NEW p \in Seq(Requests), OneOfEach(p), NEW r \in Requests
  PROVE  /\ Put(p, r) \in Seq(Requests)
         /\ OneOfEach(Put(p, r))
         /\ \A i \in DOMAIN Put(p, r) :
               \/ Put(p, r)[i] = r
               \/ \E j \in DOMAIN p : Put(p, r)[i] = p[j]
<1> DEFINE same(a) == (a = onConnect <=> r = onConnect)
<1>1. \A a : SameTopic(a, r) <=> same(a)
  BY DEF SameTopic
<1>2. CASE \E i \in DOMAIN p : SameTopic(p[i], r)
  <2> DEFINE q == [i \in DOMAIN p |-> IF SameTopic(p[i], r) THEN r ELSE p[i]]
  <2>1. Put(p, r) = q
    BY <1>2 DEF Put
  <2>2. DOMAIN q = 1..Len(p) /\ Len(p) \in Nat
    OBVIOUS
  <2>3. \A i \in DOMAIN p : q[i] \in Requests /\ q[i] \in {r, p[i]}
    OBVIOUS
  <2>4. q \in Seq(Requests)
    BY <2>2, <2>3
  <2>5. \A i \in DOMAIN p : q[i] = onConnect <=> p[i] = onConnect
    BY <1>1
  <2> HIDE DEF q
  <2>6. OneOfEach(q)
    BY <2>2, <2>5 DEF OneOfEach
  <2> QED
    BY <2>1, <2>2, <2>3, <2>4, <2>6
<1>3. CASE ~\E i \in DOMAIN p : SameTopic(p[i], r)
  <2>1. Put(p, r) = Append(p, r)
    BY <1>3 DEF Put
  <2>2. \A i \in DOMAIN p : ~same(p[i])
    BY <1>1, <1>3
  <2>3. /\ Append(p, r) \in Seq(Requests) /\ DOMAIN Append(p, r) = 1..(Len(p) + 1)
        /\ \A i \in 1..(Len(p) + 1) :
              Append(p, r)[i] = IF i <= Len(p) THEN p[i] ELSE r
    OBVIOUS
  <2>4. OneOfEach(Append(p, r))
    BY <2>2, <2>3 DEF OneOfEach
  <2> QED
    BY <2>1, <2>3, <2>4
<1> QED
  BY <1>2, <1>3

(* Two topics, two messages at most. *)
LEMMA AtMostTwo ==
  ASSUME NEW p \in Seq(Requests), OneOfEach(p) PROVE Len(p) <= 2
<1> SUFFICES ASSUME Len(p) > 2 PROVE FALSE
  OBVIOUS
<1>1. 1 \in DOMAIN p /\ 2 \in DOMAIN p /\ 3 \in DOMAIN p
  OBVIOUS
<1> QED
  BY <1>1 DEF OneOfEach
-----------------------------------------------------------------------------
(* Sending: r is onConnect, or the next command. *)
LEMMA Sends ==
  ASSUME TypeInv, NEW r \in Requests, Send(r),
         UNCHANGED <<socket, link, executed>>,
         \/ r = onConnect /\ commands' = commands
         \/ r = commands + 1 /\ commands' = commands + 1
  PROVE  /\ reqs' \in Seq(Requests) /\ pending' \in Seq(Requests)
         /\ Len(pending') <= 2 /\ OneOfEach(pending')
         /\ socket = "open" => pending' = <<>>
         /\ socket # "open" => reqs' = <<>>
         /\ CommandsInOrder'
<1> USE Constants
<1>0. /\ commands \in Nat /\ executed \in 0..commands
      /\ \A q \in Requests : q \in Nat
      /\ reqs \in Seq(Requests) /\ pending \in Seq(Requests)
  BY DEF TypeInv, TypeOK, Requests
<1>1. CASE socket = "open"
  <2>1. reqs' = Append(reqs, r) /\ pending' = <<>> /\ pending = <<>>
    BY <1>1 DEF Send, TypeInv, WireIsSound
  <2>2. /\ reqs' \in Seq(Requests) /\ DOMAIN reqs' = 1..(Len(reqs) + 1)
        /\ Len(reqs) \in Nat /\ DOMAIN reqs = 1..Len(reqs)
        /\ \A i \in 1..Len(reqs) : reqs'[i] = reqs[i]
        /\ reqs'[Len(reqs) + 1] = r
        /\ \A i \in 1..Len(reqs) : reqs[i] \in Nat
    <3>1. /\ Append(reqs, r) \in Seq(Requests)
          /\ DOMAIN Append(reqs, r) = 1..(Len(reqs) + 1)
          /\ \A i \in 1..Len(reqs) : Append(reqs, r)[i] = reqs[i]
          /\ Append(reqs, r)[Len(reqs) + 1] = r
      BY <1>0, Appended
    <3>2. /\ Len(reqs) \in Nat /\ DOMAIN reqs = 1..Len(reqs)
          /\ \A i \in 1..Len(reqs) : reqs[i] \in Nat
      BY <1>0, Elements
    <3> QED
      BY <2>1, <3>1, <3>2
  <2>3. CommandsInOrder'
    BY <2>1, <2>2, <1>0 DEF CommandsInOrder, TypeInv
  <2> QED
    BY <2>1, <2>2, <2>3, <1>1, AtMostTwo DEF OneOfEach
<1>2. CASE socket # "open"
  <2>1. pending' = Put(pending, r) /\ reqs' = <<>> /\ reqs = <<>>
    BY <1>2 DEF Send, TypeInv, WireIsSound
  <2>2. OneOfEach(pending)
    BY DEF TypeInv
  <2>3. /\ pending' \in Seq(Requests) /\ OneOfEach(pending')
        /\ \A i \in DOMAIN pending' :
              \/ pending'[i] = r
              \/ \E j \in DOMAIN pending : pending'[i] = pending[j]
    BY <2>1, <2>2, <1>0, PutOne
  <2>4. \A j \in DOMAIN pending : pending[j] \in Nat
    BY <1>0, Elements
  <2>5. CommandsInOrder'
    BY <2>1, <2>3, <2>4, <1>0 DEF CommandsInOrder, TypeInv
  <2> QED
    BY <2>1, <2>3, <2>5, <1>2, AtMostTwo
<1> QED
  BY <1>1, <1>2
-----------------------------------------------------------------------------
(* Publishing. *)
LEMMA Publishes ==
  ASSUME TypeInv, NEW m \in Messages, Publish(m)
  PROVE  /\ link' \in Seq(Messages)
         /\ socket # "open" => link' = <<>>
<1>0. link \in Seq(Messages) /\ (socket # "open" => link = <<>>)
  BY DEF TypeInv, TypeOK, WireIsSound
<1>1. Append(link, m) \in Seq(Messages)
  BY <1>0, Appended
<1> QED
  BY <1>0, <1>1 DEF Publish

LEMMA MessageTypes ==
  /\ \A o \in Objects, s \in Status :
        [type |-> "event", id |-> o, status |-> s] \in Messages
  /\ \A b \in BOOLEAN : /\ [type |-> "motion", on |-> b] \in Messages
                        /\ [type |-> "enabled", on |-> b] \in Messages
  /\ \A p \in Payloads, b \in BOOLEAN :
        [type |-> "snapshot", payload |-> p, exact |-> b] \in Messages
  BY DEF Messages, Events

LEMMA MessageOf ==
  ASSUME NEW m \in Messages
  PROVE  /\ m.type \in {"event", "motion", "enabled", "snapshot"}
         /\ m.type = "event" => m \in Events /\ m.id \in Objects /\ m.status \in Status
         /\ m.type \in {"motion", "enabled"} => m.on \in BOOLEAN
         /\ m.type = "snapshot" => m.payload \in Payloads /\ m.exact \in BOOLEAN
  BY DEF Messages, Events

(* The effects keep the objects. *)
LEMMA Effects ==
  ASSUME NEW v \in Objs, NEW s, s.event \in Events \cup {None},
         s.snap \in [objs : Objs, motion : BOOLEAN] \cup {None}
  PROVE  /\ \A e \in Events : ApplyEvent(v, e) \in Objs
         /\ BothEffects(v, s) \in Objs
<1>1. \A w \in Objs, e \in Events : ApplyEvent(w, e) \in Objs
  BY DEF ApplyEvent, Events, Objs
<1> QED
  BY <1>1 DEF BothEffects

Stores == [payload : Payloads \cup {None},
           snap : [objs : Objs, motion : BOOLEAN] \cup {None},
           event : Events \cup {None},
           motion : BOOLEAN \cup {None}, enabled : BOOLEAN \cup {None}]

LEMMA InitTypes == Init => TypeInv
<1> SUFFICES ASSUME Init PROVE TypeInv
  OBVIOUS
<1> USE Constants
<1>1. Gone \in Objs
  BY DEF Gone, Objs, Status
<1>2. NoStore \in Stores
  BY DEF NoStore, Stores
<1>3. TypeOK
  <2>1. /\ truth \in Payloads /\ listed \in Objs
        /\ last \in [objs : Objs, motion : BOOLEAN]
    BY <1>1 DEF Init, Payloads
  <2>2. link \in Seq(Messages) /\ reqs \in Seq(Requests)
        /\ pending \in Seq(Requests) /\ Len(pending) <= 2
    BY DEF Init
  <2>3. /\ changes \in 0..MaxChanges /\ commands \in 0..MaxChanges
        /\ drops \in 0..MaxDrops /\ executed \in 0..commands
    BY DEF Init
  <2>4. store \in Stores
    BY <1>2 DEF Init
  <2> QED
    BY <1>1, <2>1, <2>2, <2>3, <2>4 DEF Init, TypeOK, Stores
<1>4. WireIsSound /\ OneOfEach(pending) /\ CommandsInOrder
  BY DEF Init, WireIsSound, OneOfEach, CommandsInOrder
<1> QED
  BY <1>3, <1>4 DEF TypeInv

(* Steps that publish a status of an object, and steps that nobody is told *)
(* of.                                                                     *)
ObjectIsPublished ==
  \E o \in Objects :
    ObjectEnds(o) \/ ObjectIsReported(o) \/ \E s \in Status : ObjectStarts(o, s)
ObjectIsListed ==
  \E o \in Objects :
    ObjectIsForgotten(o) \/ \E s \in Status : ObjectMoves(o, s)

IsPublished(o, s) ==
  /\ truth' = [truth EXCEPT !.objs[o] = s]
  /\ listed' \in {listed, [listed EXCEPT ![o] = s]}
  /\ Publish([type |-> "event", id |-> o, status |-> s])
  /\ changes' \in 0..MaxChanges
  /\ UNCHANGED <<last, building, reqs, socket, pending, drops, client, commands,
                 observers>>

LEMMA PublishedObjects ==
  ASSUME TypeInv, ObjectIsPublished
  PROVE  \E o \in Objects, s \in Status : IsPublished(o, s)
<1> USE Constants
<1>0. PICK o \in Objects :
        ObjectEnds(o) \/ ObjectIsReported(o) \/ \E s \in Status : ObjectStarts(o, s)
  BY DEF ObjectIsPublished
<1>1. /\ "gone" \in Status /\ listed[o] \in Status
      /\ changes \in 0..MaxChanges /\ commands \in 0..MaxChanges
  BY DEF Status, TypeInv, TypeOK, Objs
<1>2. CASE ObjectEnds(o)
  <2>1. IsPublished(o, "gone")
    BY <1>1, <1>2 DEF ObjectEnds, IsPublished
  <2> QED
    BY <1>1, <2>1
<1>3. CASE ObjectIsReported(o)
  <2>1. IsPublished(o, listed[o])
    BY <1>1, <1>3 DEF ObjectIsReported, IsPublished
  <2> QED
    BY <1>1, <2>1
<1>4. CASE \E s \in Status : ObjectStarts(o, s)
  <2> PICK s \in Status : ObjectStarts(o, s)
    BY <1>4
  <2>1. changes' \in 0..MaxChanges
    BY <1>1 DEF ObjectStarts
  <2>2. IsPublished(o, s)
    BY <2>1 DEF ObjectStarts, IsPublished
  <2> QED
    BY <2>2
<1> QED
  BY <1>0, <1>2, <1>3, <1>4

(* What is under way when the objects are dropped: snapshots are not exact *)
(* any more.                                                               *)
LEMMA Dropped ==
  ASSUME TypeInv, ObjectsAreDropped
  PROVE  /\ link' \in Seq(Messages) /\ Len(link') = Len(link)
         /\ socket # "open" => link' = <<>>
         /\ \A i \in 1..Len(link) :
              /\ link[i].type # "snapshot" => link'[i] = link[i]
              /\ link[i].type = "snapshot" =>
                   link'[i].type = "snapshot" /\ link'[i].exact = FALSE
<1> DEFINE f(m) == IF m.type = "snapshot" THEN [m EXCEPT !.exact = FALSE] ELSE m
<1>0. /\ link \in Seq(Messages) /\ DOMAIN link = 1..Len(link) /\ Len(link) \in Nat
      /\ \A i \in 1..Len(link) : link[i] \in Messages
  BY Elements DEF TypeInv, TypeOK
<1>1. link' = [i \in 1..Len(link) |-> f(link[i])]
  BY <1>0 DEF ObjectsAreDropped
<1>2. ASSUME NEW m \in Messages
      PROVE  /\ f(m) \in Messages
             /\ m.type # "snapshot" => f(m) = m
             /\ m.type = "snapshot" => f(m).type = "snapshot" /\ f(m).exact = FALSE
  BY DEF Messages, Events
<1> HIDE DEF f
<1>3. \A i \in 1..Len(link) : link'[i] = f(link[i]) /\ f(link[i]) \in Messages
  BY <1>0, <1>1, <1>2
<1>4. link' \in Seq(Messages) /\ Len(link') = Len(link)
  BY <1>0, <1>1, <1>3
<1>5. socket # "open" => link' = <<>>
  <2>1. socket # "open" => Len(link') = 0
    BY <1>4 DEF TypeInv, WireIsSound
  <2> QED
    BY <1>4, <2>1
<1> QED
  BY <1>0, <1>2, <1>3, <1>4, <1>5

(* The steps of the server. *)
LEMMA ServerTypes ==
  ASSUME TypeInv,
         \/ ObjectIsPublished \/ ObjectIsListed
         \/ ObjectsAreDropped \/ MotionChanges \/ ActivityIsUpdated
         \/ SnapshotIsBuilt \/ OthersConnect \/ SnapshotIsPublished
         \/ CommandIsExecuted
  PROVE  TypeInv'
<1> USE Constants
<1>0. TypeOK /\ WireIsSound /\ OneOfEach(pending) /\ CommandsInOrder
  BY DEF TypeInv
<1>1. CASE ObjectIsPublished
  <2>0. PICK o \in Objects, s \in Status : IsPublished(o, s)
    BY <1>1, PublishedObjects
  <2>1. /\ link' \in Seq(Messages)
        /\ socket # "open" => link' = <<>>
    BY <2>0, MessageTypes, Publishes DEF IsPublished
  <2>2. truth' \in Payloads
    BY <1>0, <2>0 DEF IsPublished, TypeOK, Payloads, Objs
  <2>3. listed' \in Objs
    <3>1. [listed EXCEPT ![o] = s] \in Objs /\ listed \in Objs
      BY <1>0 DEF TypeOK, Objs
    <3> QED
      BY <2>0, <3>1 DEF IsPublished
  <2> QED
    BY <1>0, <2>0, <2>1, <2>2, <2>3
    DEF TypeInv, TypeOK, WireIsSound, CommandsInOrder, IsPublished, client, observers
<1>1a. CASE ObjectIsListed
  <2>1. /\ listed' \in Objs /\ changes' \in 0..MaxChanges
        /\ UNCHANGED <<truth, last, building, wire, client, commands, observers>>
    <3>1. PICK o \in Objects :
            ObjectIsForgotten(o) \/ \E s \in Status : ObjectMoves(o, s)
      BY <1>1a DEF ObjectIsListed
    <3>2. /\ listed \in Objs /\ "gone" \in Status
          /\ changes \in 0..MaxChanges /\ commands \in 0..MaxChanges
      BY <1>0 DEF TypeOK, Status
    <3>3. \A s \in Status : [listed EXCEPT ![o] = s] \in Objs
      BY <3>2 DEF Objs
    <3>4. CASE ObjectIsForgotten(o)
      BY <3>2, <3>3, <3>4 DEF ObjectIsForgotten
    <3>5. CASE \E s \in Status : ObjectMoves(o, s)
      <4> PICK s \in Status : ObjectMoves(o, s)
        BY <3>5
      <4>1. changes' \in 0..MaxChanges
        BY <3>2 DEF ObjectMoves
      <4> QED
        BY <3>3, <4>1 DEF ObjectMoves
    <3> QED
      BY <3>1, <3>4, <3>5
  <2> QED
    BY <1>0, <2>1
    DEF TypeInv, TypeOK, WireIsSound, CommandsInOrder, wire, client, observers
<1>1b. CASE ObjectsAreDropped
  <2>1. Gone \in Objs
    BY DEF Gone, Objs, Status
  <2>2. truth' \in Payloads /\ listed' \in Objs /\ changes' \in 0..MaxChanges
    <3>1. truth' \in Payloads
      BY <1>0, <1>1b, <2>1 DEF ObjectsAreDropped, TypeOK, Payloads
    <3>2. changes' \in 0..MaxChanges
      BY <1>0, <1>1b DEF ObjectsAreDropped, TypeOK
    <3> QED
      BY <1>1b, <2>1, <3>1, <3>2 DEF ObjectsAreDropped
  <2>3. link' \in Seq(Messages) /\ (socket # "open" => link' = <<>>)
    BY <1>1b, Dropped
  <2>4. /\ UNCHANGED <<last, building, reqs, socket, pending, drops, client, commands,
                        executed>>
        /\ inStep' = FALSE
    BY <1>1b DEF ObjectsAreDropped
  <2>5. TypeOK'
    <3>1. /\ inStep' \in BOOLEAN
          /\ UNCHANGED <<last, building, reqs, socket, pending, drops, store, mounted,
                         view, commands, executed>>
      BY <2>4 DEF client
    <3> QED
      BY <1>0, <2>2, <2>3, <3>1 DEF TypeOK
  <2>6. WireIsSound'
    BY <1>0, <2>3, <2>4 DEF WireIsSound
  <2>7. OneOfEach(pending') /\ CommandsInOrder'
    BY <1>0, <2>4 DEF CommandsInOrder
  <2> QED
    BY <2>5, <2>6, <2>7 DEF TypeInv
<1>2. CASE MotionChanges
  <2>1. truth' \in Payloads /\ (~truth.motion) \in BOOLEAN
    BY <1>0, <1>2 DEF MotionChanges, TypeOK, Payloads
  <2>2. /\ link' \in Seq(Messages)
        /\ socket # "open" => link' = <<>>
    BY <1>2, <2>1, MessageTypes, Publishes DEF MotionChanges
  <2> QED
    BY <1>0, <1>2, <2>1, <2>2
    DEF TypeInv, TypeOK, WireIsSound, CommandsInOrder, MotionChanges, client, observers
<1>3. CASE ActivityIsUpdated
  <2>1. last' \in [objs : Objs, motion : BOOLEAN]
    <3>1. listed \in Objs /\ Gone \in Objs /\ truth.motion \in BOOLEAN
      BY <1>0 DEF TypeOK, Payloads, Gone, Objs, Status
    <3>2. \A o \in Objs, b \in BOOLEAN :
            [objs |-> o, motion |-> b] \in [objs : Objs, motion : BOOLEAN]
      OBVIOUS
    <3>3. CASE ~truth.enabled
      BY <1>3, <3>1, <3>2, <3>3 DEF ActivityIsUpdated
    <3>4. CASE truth.enabled
      <4> PICK motion \in {truth.motion, FALSE} :
              last' = [objs |-> listed, motion |-> motion]
        BY <1>3, <3>4 DEF ActivityIsUpdated
      <4> QED
        BY <3>1, <3>2
    <3> QED
      BY <3>3, <3>4
  <2> QED
    BY <1>0, <1>3, <2>1
    DEF TypeInv, TypeOK, WireIsSound, CommandsInOrder, ActivityIsUpdated, wire, client, observers
<1>4. SnapshotNow \in Payloads
  BY <1>0 DEF SnapshotNow, TypeOK, Payloads
<1>5. CASE SnapshotIsBuilt
  <2>1. /\ reqs' \in Seq(Requests)
        /\ socket # "open" => reqs' = <<>>
    BY <1>0, <1>5 DEF SnapshotIsBuilt, TypeOK, WireIsSound
  <2>2. /\ Len(reqs) \in Nat /\ DOMAIN reqs = 1..Len(reqs)
        /\ DOMAIN reqs' = 1..(Len(reqs) - 1)
        /\ \A i \in 1..(Len(reqs) - 1) : reqs'[i] = reqs[i + 1]
    <3>1. reqs # <<>> /\ reqs' = Tail(reqs) /\ reqs \in Seq(Requests)
      BY <1>0, <1>5 DEF SnapshotIsBuilt, TypeOK
    <3> QED
      BY <3>1, Elements, Shifted
  <2>3. UNCHANGED <<pending, executed, commands>>
    BY <1>5 DEF SnapshotIsBuilt, observers
  <2>4. CommandsInOrder'
    <3>1. \A i \in DOMAIN reqs' : i + 1 \in DOMAIN reqs /\ reqs'[i] = reqs[i + 1]
      BY <2>2
    <3>2. \A i, j \in DOMAIN reqs' : i < j => i + 1 < j + 1
      BY <2>2
    <3> QED
      BY <1>0, <2>3, <3>1, <3>2 DEF CommandsInOrder
  <2>5. OneOfEach(pending')
    BY <1>0, <2>3
  <2> QED
    BY <1>0, <1>4, <1>5, <2>1, <2>4, <2>5
    DEF TypeInv, TypeOK, WireIsSound, SnapshotIsBuilt, client, observers
<1>6. CASE OthersConnect
  BY <1>0, <1>4, <1>6
  DEF TypeInv, TypeOK, WireIsSound, CommandsInOrder, OthersConnect, wire, client, observers
<1>7. CASE SnapshotIsPublished
  <2>1. Exact(building) \in BOOLEAN /\ building \in Payloads
    BY <1>0, <1>7 DEF Exact, SnapshotIsPublished, TypeOK
  <2>2. /\ link' \in Seq(Messages)
        /\ socket # "open" => link' = <<>>
    BY <1>7, <2>1, MessageTypes, Publishes DEF SnapshotIsPublished
  <2> QED
    BY <1>0, <1>7, <2>2
    DEF TypeInv, TypeOK, WireIsSound, CommandsInOrder, SnapshotIsPublished, client, observers
<1>8. CASE CommandIsExecuted
  <2>1. reqs # <<>> /\ reqs' = Tail(reqs) /\ reqs \in Seq(Requests)
        /\ Head(reqs) # onConnect
    BY <1>0, <1>8 DEF CommandIsExecuted, TypeOK
  <2>2. /\ Len(reqs) \in Nat /\ DOMAIN reqs = 1..Len(reqs) /\ Len(reqs) >= 1
        /\ Head(reqs) = reqs[1]
        /\ reqs' \in Seq(Requests) /\ DOMAIN reqs' = 1..(Len(reqs) - 1)
        /\ \A i \in 1..(Len(reqs) - 1) : reqs'[i] = reqs[i + 1]
    BY <2>1, Elements, Shifted
  <2>3. UNCHANGED <<pending, commands>> /\ executed' = reqs[1]
    BY <1>8, <2>2 DEF CommandIsExecuted
  <2>4. socket = "open" /\ pending = <<>>
    BY <1>0, <2>1 DEF WireIsSound
  <2>5. CommandsInOrder'
    BY <1>0, <2>1, <2>2, <2>3, <2>4 DEF CommandsInOrder
  <2>6. OneOfEach(pending')
    BY <1>0, <2>3
  <2>7. executed' \in 0..commands
    <3>1. 1 \in DOMAIN reqs /\ reqs[1] \in Nat /\ commands \in Nat
      BY <1>0, <2>1, <2>2, Elements DEF TypeOK, Requests
    <3>2. reqs[1] <= commands
      BY <1>0, <2>1, <2>2, <3>1 DEF CommandsInOrder
    <3> QED
      BY <2>3, <3>1, <3>2
  <2>8. truth' \in Payloads /\ EnabledBy(Head(reqs)) \in BOOLEAN
    BY <1>0, <1>8 DEF CommandIsExecuted, TypeOK, Payloads, EnabledBy
  <2>9. link' \in Seq(Messages)
    BY <1>8, <2>8, MessageTypes, Publishes DEF CommandIsExecuted
  <2> QED
    BY <1>0, <1>8, <2>2, <2>4, <2>5, <2>6, <2>7, <2>8, <2>9
    DEF TypeInv, TypeOK, WireIsSound, CommandIsExecuted, client
<1> QED
  BY <1>1, <1>1a, <1>1b, <1>2, <1>3, <1>5, <1>6, <1>7, <1>8

(* The steps of the connection. *)
LEMMA ConnectionTypes ==
  ASSUME TypeInv,
         ReconnectTimer \/ SocketOpens \/ SocketCloses \/ ProviderRestarts
  PROVE  TypeInv'
<1> USE Constants
<1>0. TypeOK /\ WireIsSound /\ OneOfEach(pending) /\ CommandsInOrder
  BY DEF TypeInv
<1>1. CASE ReconnectTimer
  BY <1>0, <1>1
  DEF TypeInv, TypeOK, WireIsSound, CommandsInOrder, ReconnectTimer, server, client, observers
<1>2. CASE SocketOpens
  <2> DEFINE q == <<onConnect>> \o pending
  <2>1. /\ socket = "connecting" /\ socket' = "open"
        /\ reqs' = q /\ pending' = <<>> /\ store' = Invalidated(store)
        /\ UNCHANGED <<server, link, drops, mounted, view, commands, observers>>
    BY <1>2 DEF SocketOpens
  <2>2. pending \in Seq(Requests) /\ reqs = <<>> /\ link = <<>> /\ ~inStep
    BY <1>0, <2>1 DEF TypeOK, WireIsSound
  <2>3. /\ q \in Seq(Requests) /\ DOMAIN q = 1..(Len(pending) + 1)
        /\ q[1] = onConnect
        /\ \A i \in 2..(Len(pending) + 1) : q[i] = pending[i - 1]
    BY <2>2
  <2>4. /\ Len(pending) \in Nat /\ DOMAIN pending = 1..Len(pending)
        /\ \A i \in 1..Len(pending) : pending[i] \in Nat
    BY <2>2, Elements DEF Requests
  <2> HIDE DEF q
  <2>5. \A i \in DOMAIN q : q[i] # onConnect =>
          i - 1 \in DOMAIN pending /\ q[i] = pending[i - 1]
    BY <2>3, <2>4
  <2>6. \A i \in DOMAIN q : q[i] # onConnect => executed <= q[i] /\ q[i] <= commands
    BY <1>0, <2>5 DEF CommandsInOrder
  <2>7. \A i, j \in DOMAIN q : q[i] # onConnect /\ q[j] # onConnect => i - 1 = j - 1
    BY <1>0, <2>5 DEF OneOfEach
  <2>8. \A i, j \in DOMAIN q :
          i < j /\ q[i] # onConnect /\ q[j] # onConnect => q[i] <= q[j]
    BY <2>3, <2>4, <2>7
  <2>9. CommandsInOrder'
    BY <2>1, <2>6, <2>8 DEF CommandsInOrder, observers
  <2>10. OneOfEach(pending') /\ pending' \in Seq(Requests) /\ Len(pending') <= 2
    BY <2>1 DEF OneOfEach
  <2>11. store' \in Stores
    BY <1>0, <2>1 DEF TypeOK, Stores, Invalidated
  <2> QED
    BY <1>0, <2>1, <2>2, <2>3, <2>9, <2>10, <2>11
    DEF TypeInv, TypeOK, WireIsSound, Stores, server, observers
<1>3. CASE SocketCloses
  <2>1. drops' \in 0..MaxDrops
    BY <1>0, <1>3 DEF SocketCloses, TypeOK
  <2>2. /\ UNCHANGED <<truth, listed, last, building, changes, pending, store, mounted,
                        view, commands, executed>>
        /\ link' = <<>> /\ reqs' = <<>> /\ socket' = "waiting" /\ inStep' = FALSE
    BY <1>3 DEF SocketCloses, server, client
  <2>3. link' \in Seq(Messages) /\ reqs' \in Seq(Requests)
    BY <2>2
  <2>4. TypeOK'
    BY <1>0, <2>1, <2>2, <2>3 DEF TypeOK
  <2>5. WireIsSound' /\ OneOfEach(pending')
    BY <1>0, <2>2 DEF WireIsSound
  <2>6. CommandsInOrder'
    BY <1>0, <2>2 DEF CommandsInOrder
  <2> QED
    BY <2>4, <2>5, <2>6 DEF TypeInv
<1>4. CASE ProviderRestarts
  <2>1. drops' \in 0..MaxDrops
    BY <1>0, <1>4 DEF ProviderRestarts, TypeOK
  <2>2. Gone \in Objs /\ NoStore \in Stores
    BY DEF Gone, Objs, Status, NoStore, Stores
  <2>3. /\ UNCHANGED <<truth, listed, last, building, changes, commands, executed>>
        /\ link' = <<>> /\ reqs' = <<>> /\ pending' = <<>>
        /\ socket' = "connecting" /\ inStep' = FALSE
        /\ store' = NoStore /\ mounted' = FALSE /\ view' = Gone
    BY <1>4 DEF ProviderRestarts, server
  <2>4. /\ link' \in Seq(Messages) /\ reqs' \in Seq(Requests)
        /\ pending' \in Seq(Requests) /\ Len(pending') <= 2
    BY <2>3
  <2>5. TypeOK'
    BY <1>0, <2>1, <2>2, <2>3, <2>4 DEF TypeOK, Stores
  <2>6. WireIsSound' /\ OneOfEach(pending') /\ CommandsInOrder'
    BY <2>3 DEF WireIsSound, OneOfEach, CommandsInOrder
  <2> QED
    BY <2>5, <2>6 DEF TypeInv
<1> QED
  BY <1>1, <1>2, <1>3, <1>4

(* The messages. *)
LEMMA ReceivingTypes ==
  ASSUME TypeInv, ReceiveEvent \/ ReceiveState \/ ReceiveSnapshot
  PROVE  TypeInv'
<1>0. TypeOK /\ WireIsSound /\ OneOfEach(pending) /\ CommandsInOrder
  BY DEF TypeInv
<1> DEFINE m == Head(link)
<1>1. /\ link # <<>> /\ link' = Tail(link)
      /\ UNCHANGED <<server, reqs, socket, pending, drops, mounted, commands, executed>>
  BY DEF ReceiveEvent, ReceiveState, ReceiveSnapshot, Received
<1>2. m \in Messages /\ link' \in Seq(Messages)
  BY <1>0, <1>1, Shifted DEF TypeOK
<1>3. store \in Stores /\ view \in Objs /\ mounted \in BOOLEAN /\ inStep \in BOOLEAN
  BY <1>0 DEF TypeOK, Stores
<1>4. socket = "open"
  BY <1>0, <1>1 DEF WireIsSound
<1> HIDE DEF m
<1>5. store' \in Stores /\ view' \in Objs /\ inStep' \in BOOLEAN
      /\ (inStep' => mounted)
  <2>1. CASE ReceiveEvent
    <3>1. /\ m.type = "event" /\ store' = [store EXCEPT !.event = m]
          /\ view' = IF mounted THEN ApplyEvent(view, m) ELSE view
          /\ inStep' = inStep
      BY <2>1 DEF ReceiveEvent, m
    <3>2. m \in Events
      BY <1>2, <3>1, MessageOf
    <3>3. ApplyEvent(view, m) \in Objs
      BY <1>3, <3>2 DEF ApplyEvent, Events, Objs
    <3> QED
      BY <1>0, <1>3, <3>1, <3>2, <3>3 DEF Stores, WireIsSound
  <2>2. CASE ReceiveState
    <3>1. /\ m.type \in {"motion", "enabled"}
          /\ \/ store' = [store EXCEPT !.motion = m.on]
             \/ store' = [store EXCEPT !.enabled = m.on]
          /\ view' = view /\ inStep' = inStep
      BY <2>2 DEF ReceiveState, m
    <3>2. m.on \in BOOLEAN
      BY <1>2, <3>1, MessageOf
    <3> QED
      BY <1>0, <1>3, <3>1, <3>2 DEF Stores, WireIsSound
  <2>3. CASE ReceiveSnapshot
    <3> DEFINE p == m.payload
    <3>1. /\ m.type = "snapshot"
          /\ \/ UNCHANGED <<store, view, inStep>>
             \/ /\ store' = [store EXCEPT !.payload = p,
                                !.snap = [objs |-> p.objs, motion |-> p.motion],
                                !.enabled = p.enabled]
                /\ view' = (IF mounted THEN p.objs ELSE view)
                /\ inStep' = (mounted /\ m.exact)
      BY <2>3 DEF ReceiveSnapshot, m
    <3>2. p \in Payloads /\ m.exact \in BOOLEAN
      BY <1>2, <3>1, MessageOf
    <3>3. p.objs \in Objs /\ p.motion \in BOOLEAN /\ p.enabled \in BOOLEAN
      BY <3>2 DEF Payloads
    <3> HIDE DEF p
    <3>4. [objs |-> p.objs, motion |-> p.motion] \in [objs : Objs, motion : BOOLEAN]
      BY <3>3
    <3> DEFINE n == [objs |-> p.objs, motion |-> p.motion]
    <3>5. n \in [objs : Objs, motion : BOOLEAN]
      BY <3>4
    <3> HIDE DEF n
    <3>6. [store EXCEPT !.payload = p, !.snap = n, !.enabled = p.enabled] \in Stores
      BY <1>3, <3>2, <3>3, <3>5 DEF Stores
    <3>7. store' \in Stores
      BY <1>3, <3>1, <3>6 DEF n
    <3> QED
      BY <1>0, <1>3, <3>1, <3>2, <3>3, <3>7 DEF WireIsSound
  <2> QED
    BY <2>1, <2>2, <2>3
<1> QED
  BY <1>0, <1>1, <1>2, <1>4, <1>5
  DEF TypeInv, TypeOK, WireIsSound, CommandsInOrder, Stores, server

(* The page. *)
LEMMA PageTypes ==
  ASSUME TypeInv, Mount \/ Unmount \/ Visible \/ ConfigRefetched \/ Command
  PROVE  TypeInv'
<1> USE Constants
<1>0. TypeOK /\ WireIsSound /\ OneOfEach(pending) /\ CommandsInOrder
  BY DEF TypeInv
<1>1. store \in Stores /\ view \in Objs /\ Gone \in Objs
  BY <1>0 DEF TypeOK, Stores, Gone, Objs, Status
<1>2. BothEffects(Gone, store) \in Objs /\ BothEffects(view, store) \in Objs
  BY <1>1, Effects DEF Stores
<1>3. Invalidated(store) \in Stores
  BY <1>1 DEF Invalidated, Stores
<1>4. CASE Mount \/ Visible
  <2>1. /\ Send(onConnect) /\ store' = Invalidated(store)
        /\ mounted' = TRUE /\ view' \in Objs
        /\ UNCHANGED <<server, link, socket, drops, commands, observers>>
    BY <1>0, <1>1, <1>2, <1>4 DEF Mount, Visible, Resync, TypeOK
  <2>2. /\ reqs' \in Seq(Requests) /\ pending' \in Seq(Requests)
        /\ Len(pending') <= 2 /\ OneOfEach(pending')
        /\ socket = "open" => pending' = <<>>
        /\ socket # "open" => reqs' = <<>>
        /\ CommandsInOrder'
    BY <2>1, Sends DEF observers
  <2> QED
    BY <1>0, <1>3, <2>1, <2>2
    DEF TypeInv, TypeOK, WireIsSound, Stores, server, observers
<1>5. CASE Unmount \/ ConfigRefetched
  <2>1. /\ UNCHANGED <<truth, listed, last, building, changes, link, reqs, socket,
                        pending, drops, store, commands, executed>>
        /\ inStep' = FALSE /\ mounted' \in BOOLEAN /\ view' \in Objs
    BY <1>0, <1>1, <1>2, <1>5
    DEF TypeOK, Unmount, ConfigRefetched, server, wire
  <2>2. TypeOK'
    BY <1>0, <2>1 DEF TypeOK
  <2>3. WireIsSound' /\ OneOfEach(pending')
    BY <1>0, <2>1 DEF WireIsSound
  <2>4. CommandsInOrder'
    BY <1>0, <2>1 DEF CommandsInOrder
  <2> QED
    BY <2>2, <2>3, <2>4 DEF TypeInv
<1>7. CASE Command
  <2>1. /\ Send(commands + 1) /\ commands' = commands + 1
        /\ changes + commands < MaxChanges
        /\ UNCHANGED <<server, link, socket, drops, client, observers>>
    BY <1>7 DEF Command
  <2>2. commands + 1 \in Requests /\ commands' \in 0..MaxChanges
        /\ executed' \in 0..commands'
    BY <1>0, <2>1 DEF TypeOK, Requests, observers
  <2>3. /\ reqs' \in Seq(Requests) /\ pending' \in Seq(Requests)
        /\ Len(pending') <= 2 /\ OneOfEach(pending')
        /\ socket = "open" => pending' = <<>>
        /\ socket # "open" => reqs' = <<>>
        /\ CommandsInOrder'
    BY <2>1, <2>2, Sends DEF observers
  <2> QED
    BY <1>0, <2>1, <2>2, <2>3
    DEF TypeInv, TypeOK, WireIsSound, server, client, observers
<1> QED
  BY <1>4, <1>5, <1>7

LEMMA StepTypes == TypeInv /\ [Next]_vars => TypeInv'
<1> SUFFICES ASSUME TypeInv, [Next]_vars PROVE TypeInv'
  OBVIOUS
<1>1. CASE UNCHANGED vars
  BY <1>1 DEF vars, TypeInv, TypeOK, WireIsSound, OneOfEach, CommandsInOrder
<1> QED
  BY <1>1, ServerTypes, ConnectionTypes, ReceivingTypes, PageTypes
  DEF Next, ObjectIsPublished, ObjectIsListed

LEMMA SpecTypes == Spec => []TypeInv
  BY InitTypes, StepTypes, PTL DEF Spec

(* Every part of the state keeps its shape. *)
THEOREM Types == Spec => []TypeOK
<1>1. TypeInv => TypeOK
  BY DEF TypeInv
<1> QED
  BY <1>1, SpecTypes, PTL

(* No command is executed after a newer one, however often the connection  *)
(* is lost and whatever waits when it comes back.                          *)
THEOREM NoOldCommands == Spec => NoOldCommandReturns
<1>1. TypeInv /\ [Next]_vars => [executed' >= executed]_executed
  <2> SUFFICES ASSUME TypeInv, [Next]_vars, executed' # executed
               PROVE  executed' >= executed
    OBVIOUS
  <2>1. CommandIsExecuted
    BY DEF Next, vars, ObjectStarts, ObjectEnds, ObjectMoves, ObjectIsReported,
       ObjectIsForgotten, ObjectsAreDropped, MotionChanges, ActivityIsUpdated,
       SnapshotIsBuilt, OthersConnect, SnapshotIsPublished, ReconnectTimer,
       SocketOpens, SocketCloses, ProviderRestarts, ReceiveEvent, ReceiveState,
       ReceiveSnapshot, Received, Mount, Unmount, Visible, ConfigRefetched,
       Command, observers
  <2>2. /\ reqs # <<>> /\ reqs \in Seq(Requests)
        /\ Head(reqs) # onConnect /\ executed' = Head(reqs)
    BY <2>1 DEF CommandIsExecuted, TypeInv, TypeOK
  <2>3. 1 \in DOMAIN reqs /\ Head(reqs) = reqs[1] /\ reqs[1] \in Nat
    <3>1. /\ Len(reqs) >= 1 /\ Len(reqs) \in Nat /\ DOMAIN reqs = 1..Len(reqs)
          /\ Head(reqs) = reqs[1] /\ Head(reqs) \in Requests
      BY <2>2, Elements, Shifted
    <3> QED
      BY <3>1, Constants DEF Requests
  <2>4. executed \in Nat /\ executed <= reqs[1]
    BY <2>2, <2>3 DEF TypeInv, TypeOK, CommandsInOrder
  <2> QED
    BY <2>2, <2>3, <2>4
<1> QED
  BY <1>1, SpecTypes, PTL DEF Spec, NoOldCommandReturns
-----------------------------------------------------------------------------
(* What is under way to a view in step, or behind an exact snapshot, leads *)
(* to the camera as it is: behind the last event of an object nothing else *)
(* has happened to it, and the same of the snapshot and the view.          *)
IsEvent(m, o) == m.type = "event" /\ m.id = o
NoEventAfter(q, i, o) == \A j \in 1..Len(q) : j > i => ~IsEvent(q[j], o)
NoSwitchAfter(q, i) == \A j \in 1..Len(q) : j > i => q[j].type # "enabled"

IsExact(m) == m.type = "snapshot" /\ m.exact
Led(q, in, i) == in \/ \E k \in 1..Len(q) : k < i /\ IsExact(q[k])

EventsLead ==
  \A i \in 1..Len(link), o \in Objects :
    Led(link, inStep, i) /\ IsEvent(link[i], o) /\ NoEventAfter(link, i, o)
      => link[i].status = truth.objs[o]

SwitchesLead ==
  \A i \in 1..Len(link) :
    link[i].type = "enabled" /\ NoSwitchAfter(link, i)
      => (link[i].on <=> truth.enabled)

SnapshotsLead ==
  \A i \in 1..Len(link) : link[i].type = "snapshot" /\ link[i].exact =>
    /\ \A o \in Objects : NoEventAfter(link, i, o)
          => link[i].payload.objs[o] = truth.objs[o]
    /\ NoSwitchAfter(link, i) => (link[i].payload.enabled <=> truth.enabled)

ViewLeads ==
  inStep =>
    /\ \A o \in Objects : NoEventAfter(link, 0, o)
          => (view[o] = "active" <=> truth.objs[o] = "active")
    /\ NoSwitchAfter(link, 0) => (CameraIsEnabled(store) <=> truth.enabled)

Following == EventsLead /\ SwitchesLead /\ SnapshotsLead /\ ViewLeads

LEMMA Empty ==
  ASSUME link' = <<>>, inStep' = FALSE PROVE Following'
  BY DEF Following, EventsLead, SwitchesLead, SnapshotsLead, ViewLeads

LEMMA Leaves ==
  ASSUME Following, link' = link, truth' = truth,
         inStep' => inStep /\ view' = view /\ store'.enabled = store.enabled
  PROVE  Following'
<1>1. EventsLead' /\ SwitchesLead'
  BY DEF Following, EventsLead, SwitchesLead, Led, IsExact, IsEvent, NoEventAfter,
         NoSwitchAfter
<1>2. SnapshotsLead'
  BY DEF Following, SnapshotsLead, IsEvent, NoEventAfter, NoSwitchAfter
<1>3. ViewLeads'
  BY DEF Following, ViewLeads, IsEvent, NoEventAfter, NoSwitchAfter, CameraIsEnabled
<1> QED
  BY <1>1, <1>2, <1>3 DEF Following

(* A message says what has changed. *)
LEMMA Tells ==
  ASSUME TypeInv, Following, NEW m \in Messages, link' = Append(link, m),
         UNCHANGED <<view, store, inStep>>,
         \A o \in Objects : IsEvent(m, o) => m.status = truth'.objs[o],
         \A o \in Objects : ~IsEvent(m, o) => truth'.objs[o] = truth.objs[o],
         m.type = "enabled" => (m.on <=> truth'.enabled),
         m.type # "enabled" => truth'.enabled = truth.enabled,
         m.type = "snapshot" /\ m.exact =>
            /\ m.payload.objs = truth'.objs
            /\ m.payload.enabled = truth'.enabled
  PROVE  Following'
<1> DEFINE n == Len(link)
<1>1. /\ Len(link') = n + 1 /\ n \in Nat /\ link'[n + 1] = m
      /\ \A i \in 1..n : link'[i] = link[i]
  BY Appended DEF TypeInv, TypeOK
<1> HIDE DEF n
<1>2. \A i \in 0..n, o \in Objects :
        NoEventAfter(link', i, o) => NoEventAfter(link, i, o) /\ ~IsEvent(m, o)
  BY <1>1 DEF NoEventAfter, n
<1>3. \A i \in 0..n :
        NoSwitchAfter(link', i) => NoSwitchAfter(link, i) /\ m.type # "enabled"
  BY <1>1 DEF NoSwitchAfter, n
<1>4. \A i \in 1..(n + 1) : i = n + 1 \/ (i \in 1..n /\ i \in 0..n)
  BY <1>1
<1>5. 0 \in 0..n /\ 1..Len(link') = 1..(n + 1)
  BY <1>1
<1>5a. \A i \in 1..n : Led(link', inStep', i) => Led(link, inStep, i)
  BY <1>1, <1>5 DEF Led, n
<1>6. EventsLead'
  BY <1>1, <1>2, <1>4, <1>5, <1>5a DEF Following, EventsLead, n
<1>7. SwitchesLead'
  BY <1>1, <1>3, <1>4, <1>5 DEF Following, SwitchesLead, n
<1>8. SnapshotsLead'
  <2> SUFFICES ASSUME NEW i \in 1..(n + 1),
                      link'[i].type = "snapshot", link'[i].exact
               PROVE  /\ \A o \in Objects : NoEventAfter(link', i, o)
                            => link'[i].payload.objs[o] = truth'.objs[o]
                      /\ NoSwitchAfter(link', i)
                            => (link'[i].payload.enabled <=> truth'.enabled)
    BY <1>5 DEF SnapshotsLead
  <2>1. CASE i = n + 1
    BY <1>1, <2>1
  <2>2. CASE i \in 1..n /\ i \in 0..n
    <3>1. link'[i] = link[i]
      BY <1>1, <2>2
    <3>2. \A o \in Objects : NoEventAfter(link, i, o)
             => link[i].payload.objs[o] = truth.objs[o]
      BY <2>2, <3>1 DEF Following, SnapshotsLead, n
    <3>3. NoSwitchAfter(link, i) => (link[i].payload.enabled <=> truth.enabled)
      BY <2>2, <3>1 DEF Following, SnapshotsLead, n
    <3>4. \A o \in Objects : NoEventAfter(link', i, o)
            => link'[i].payload.objs[o] = truth'.objs[o]
      BY <1>2, <2>2, <3>1, <3>2
    <3>5. NoSwitchAfter(link', i)
            => (link'[i].payload.enabled <=> truth'.enabled)
      BY <1>3, <2>2, <3>1, <3>3
    <3> QED
      BY <3>4, <3>5
  <2> QED
    BY <1>4, <2>1, <2>2
<1>9. ViewLeads'
  BY <1>2, <1>3, <1>5 DEF Following, ViewLeads, CameraIsEnabled
<1> QED
  BY <1>6, <1>7, <1>8, <1>9 DEF Following

(* A message that is received is taken off the link. *)
LEMMA Hears ==
  ASSUME TypeInv, Following, link # <<>>, link' = Tail(link), truth' = truth,
         inStep' => inStep \/ IsExact(link[1]),
         inStep' =>
           /\ \A o \in Objects : NoEventAfter(link, 1, o)
                 => (view'[o] = "active" <=> truth.objs[o] = "active")
           /\ NoSwitchAfter(link, 1)
                 => (CameraIsEnabled(store') <=> truth.enabled)
  PROVE  Following'
<1> DEFINE n == Len(link)
<1>1. /\ n \in Nat /\ n >= 1 /\ Len(link') = n - 1
      /\ \A i \in 1..(n - 1) : link'[i] = link[i + 1]
  BY Elements, Shifted DEF TypeInv, TypeOK
<1> HIDE DEF n
<1>2. \A j \in 1..n, i \in 0..(n - 1) : j > i + 1 =>
        j - 1 \in 1..(n - 1) /\ j - 1 > i /\ link'[j - 1] = link[j]
  <2> SUFFICES ASSUME NEW j \in 1..n, NEW i \in 0..(n - 1), j > i + 1
               PROVE  j - 1 \in 1..(n - 1) /\ j - 1 > i /\ link'[j - 1] = link[j]
    OBVIOUS
  <2>1. j - 1 \in 1..(n - 1) /\ j - 1 > i /\ (j - 1) + 1 = j
    BY <1>1
  <2> QED
    BY <1>1, <2>1
<1>3. \A i \in 0..(n - 1), o \in Objects :
        NoEventAfter(link', i, o) => NoEventAfter(link, i + 1, o)
  <2> SUFFICES ASSUME NEW i \in 0..(n - 1), NEW o \in Objects,
                      NoEventAfter(link', i, o), NEW j \in 1..n, j > i + 1
               PROVE  ~IsEvent(link[j], o)
    BY DEF NoEventAfter, n
  <2>1. j - 1 \in 1..(n - 1) /\ j - 1 > i /\ link'[j - 1] = link[j]
    BY <1>2
  <2>2. ~IsEvent(link'[j - 1], o)
    BY <1>1, <2>1 DEF NoEventAfter
  <2> QED
    BY <2>1, <2>2
<1>4. \A i \in 0..(n - 1) : NoSwitchAfter(link', i) => NoSwitchAfter(link, i + 1)
  <2> SUFFICES ASSUME NEW i \in 0..(n - 1), NoSwitchAfter(link', i),
                      NEW j \in 1..n, j > i + 1
               PROVE  link[j].type # "enabled"
    BY DEF NoSwitchAfter, n
  <2>1. j - 1 \in 1..(n - 1) /\ j - 1 > i /\ link'[j - 1] = link[j]
    BY <1>2
  <2>2. link'[j - 1].type # "enabled"
    BY <1>1, <2>1 DEF NoSwitchAfter
  <2> QED
    BY <2>1, <2>2
<1>5. \A i \in 1..Len(link') :
        i \in 0..(n - 1) /\ i + 1 \in 1..n /\ link'[i] = link[i + 1]
  BY <1>1
<1>5a. \A i \in 1..Len(link') : Led(link', inStep', i) => Led(link, inStep, i + 1)
  <2> SUFFICES ASSUME NEW i \in 1..Len(link'), Led(link', inStep', i)
               PROVE  Led(link, inStep, i + 1)
    OBVIOUS
  <2>1. 1 \in 1..Len(link) /\ 1 < i + 1
    BY <1>1 DEF n
  <2>2. CASE inStep'
    BY <2>1, <2>2 DEF Led
  <2>3. CASE \E k \in 1..Len(link') : k < i /\ IsExact(link'[k])
    <3> PICK k \in 1..Len(link') : k < i /\ IsExact(link'[k])
      BY <2>3
    <3>1. k + 1 \in 1..Len(link) /\ k + 1 < i + 1 /\ link'[k] = link[k + 1]
      BY <1>1 DEF n
    <3>2. IsExact(link[k + 1])
      BY <3>1
    <3> QED
      BY <3>1, <3>2 DEF Led
  <2> QED
    BY <2>2, <2>3 DEF Led
<1>6. EventsLead'
  BY <1>3, <1>5, <1>5a DEF Following, EventsLead, n
<1>7. SwitchesLead'
  BY <1>4, <1>5 DEF Following, SwitchesLead, n
<1>8. SnapshotsLead'
  BY <1>3, <1>4, <1>5 DEF Following, SnapshotsLead, n
<1>9. ViewLeads'
  <2>1. 0 \in 0..(n - 1) /\ 0 + 1 = 1
    BY <1>1
  <2> QED
    BY <1>3, <1>4, <2>1 DEF ViewLeads
<1> QED
  BY <1>6, <1>7, <1>8, <1>9 DEF Following

LEMMA ReceivingFollows ==
  ASSUME TypeInv, Following, ReceiveEvent \/ ReceiveState \/ ReceiveSnapshot
  PROVE  Following'
<1> DEFINE m == Head(link)
<1>1. link # <<>> /\ link' = Tail(link) /\ truth' = truth
  BY DEF ReceiveEvent, ReceiveState, ReceiveSnapshot, Received, server
<1>2. m = link[1] /\ m \in Messages /\ 1 \in 1..Len(link)
  BY <1>1, Elements, Shifted DEF TypeInv, TypeOK
<1>3. /\ \A o \in Objects :
            NoEventAfter(link, 1, o) /\ ~IsEvent(m, o) => NoEventAfter(link, 0, o)
      /\ NoSwitchAfter(link, 1) /\ m.type # "enabled" => NoSwitchAfter(link, 0)
  <2>1. \A j \in 1..Len(link) : j = 1 \/ j > 1
    BY <1>1, Elements DEF TypeInv, TypeOK
  <2> QED
    BY <1>2, <2>1 DEF NoEventAfter, NoSwitchAfter
<1>4. inStep =>
        /\ mounted
        /\ \A o \in Objects : NoEventAfter(link, 0, o)
              => (view[o] = "active" <=> truth.objs[o] = "active")
        /\ NoSwitchAfter(link, 0) => (CameraIsEnabled(store) <=> truth.enabled)
  BY DEF Following, ViewLeads, TypeInv, WireIsSound
<1>5. view \in Objs /\ store \in Stores
  BY DEF TypeInv, TypeOK, Stores
<1>6. None \notin BOOLEAN
  BY NoneAssumption
<1> HIDE DEF m
<1>7. CASE ReceiveEvent
  <2>1. /\ m.type = "event" /\ store' = [store EXCEPT !.event = m]
        /\ inStep => view' = ApplyEvent(view, m)
        /\ inStep' = inStep
    BY <1>4, <1>7 DEF ReceiveEvent, m
  <2>2. inStep => \A o \in Objects : NoEventAfter(link, 1, o) /\ IsEvent(m, o)
          => m.status = truth.objs[o]
    BY <1>2 DEF Following, EventsLead, Led
  <2>3. \A o \in Objects :
          /\ IsEvent(m, o) => \/ ApplyEvent(view, m)[o] = m.status
                              \/ /\ m.status = "stationary" /\ view[o] = "gone"
                                 /\ ApplyEvent(view, m)[o] = "gone"
          /\ ~IsEvent(m, o) => ApplyEvent(view, m)[o] = view[o]
    BY <1>5, <2>1 DEF ApplyEvent, IsEvent, Objs
  <2>4. CameraIsEnabled(store') = CameraIsEnabled(store)
    BY <1>5, <2>1 DEF CameraIsEnabled, Stores
  <2>5. inStep' => \A o \in Objects : NoEventAfter(link, 1, o)
          => (view'[o] = "active" <=> truth.objs[o] = "active")
    <3> SUFFICES ASSUME inStep, NEW o \in Objects, NoEventAfter(link, 1, o)
                 PROVE  view'[o] = "active" <=> truth.objs[o] = "active"
      BY <2>1
    <3>1. CASE IsEvent(m, o)
      BY <2>1, <2>2, <2>3, <3>1
    <3>2. CASE ~IsEvent(m, o)
      BY <1>3, <1>4, <2>1, <2>3, <3>2
    <3> QED
      BY <3>1, <3>2
  <2>6. inStep' => (NoSwitchAfter(link, 1)
          => (CameraIsEnabled(store') <=> truth.enabled))
    BY <1>3, <1>4, <2>1, <2>4
  <2> QED
    BY <1>1, <2>1, <2>5, <2>6, Hears
<1>8. CASE ReceiveState
  <2>1. /\ m.type # "event" /\ inStep' = inStep /\ view' = view
        /\ \/ m.type = "motion" /\ store' = [store EXCEPT !.motion = m.on]
           \/ m.type = "enabled" /\ store' = [store EXCEPT !.enabled = m.on]
    BY <1>8 DEF ReceiveState, m
  <2>2. inStep' => \A o \in Objects : NoEventAfter(link, 1, o)
          => (view'[o] = "active" <=> truth.objs[o] = "active")
    BY <1>3, <1>4, <2>1 DEF IsEvent
  <2>3. CASE m.type = "motion"
    <3>1. store'.enabled = store.enabled
      BY <1>5, <2>1, <2>3 DEF Stores
    <3>2. inStep' => (NoSwitchAfter(link, 1)
            => (CameraIsEnabled(store') <=> truth.enabled))
      BY <1>3, <1>4, <2>1, <2>3, <3>1 DEF CameraIsEnabled
    <3> QED
      BY <1>1, <2>1, <2>2, <3>2, Hears
  <2>4. CASE m.type = "enabled"
    <3>1. store'.enabled = m.on /\ m.on \in BOOLEAN
      BY <1>2, <1>5, <2>1, <2>4, MessageOf DEF Stores
    <3>2. NoSwitchAfter(link, 1) => (m.on <=> truth.enabled)
      BY <1>2, <2>4 DEF Following, SwitchesLead
    <3>3. CameraIsEnabled(store') <=> m.on
      BY <1>6, <3>1 DEF CameraIsEnabled
    <3> QED
      BY <1>1, <2>1, <2>2, <3>2, <3>3, Hears
  <2> QED
    BY <2>1, <2>3, <2>4
<1>9. CASE ReceiveSnapshot
  <2> DEFINE p == m.payload
  <2>1. m.type = "snapshot"
    BY <1>9 DEF ReceiveSnapshot, m
  <2>2. \/ UNCHANGED <<store, view, inStep>>
        \/ /\ store' = [store EXCEPT !.payload = p,
                           !.snap = [objs |-> p.objs, motion |-> p.motion],
                           !.enabled = p.enabled]
           /\ mounted => view' = p.objs
           /\ inStep' = (mounted /\ m.exact)
    BY <1>9 DEF ReceiveSnapshot, m
  <2>3. p \in Payloads /\ p.enabled \in BOOLEAN
    BY <1>2, <2>1, MessageOf DEF Payloads
  <2>4. m.exact =>
          /\ \A o \in Objects : NoEventAfter(link, 1, o) => p.objs[o] = truth.objs[o]
          /\ NoSwitchAfter(link, 1) => (p.enabled <=> truth.enabled)
    BY <1>2, <2>1 DEF Following, SnapshotsLead
  <2> HIDE DEF p
  <2>5. CASE UNCHANGED <<store, view, inStep>>
    <3>1. inStep' => \A o \in Objects : NoEventAfter(link, 1, o)
            => (view'[o] = "active" <=> truth.objs[o] = "active")
      BY <1>3, <1>4, <2>1, <2>5 DEF IsEvent
    <3>2. inStep' => (NoSwitchAfter(link, 1)
            => (CameraIsEnabled(store') <=> truth.enabled))
      BY <1>3, <1>4, <2>1, <2>5
    <3> QED
      BY <1>1, <2>5, <3>1, <3>2, Hears
  <2>6. CASE /\ store' = [store EXCEPT !.payload = p,
                           !.snap = [objs |-> p.objs, motion |-> p.motion],
                           !.enabled = p.enabled]
             /\ mounted => view' = p.objs
             /\ inStep' = (mounted /\ m.exact)
    <3>1. store'.enabled = p.enabled
      BY <1>5, <2>6 DEF Stores
    <3>2. CameraIsEnabled(store') <=> p.enabled
      BY <1>6, <2>3, <3>1 DEF CameraIsEnabled
    <3>3. inStep' => \A o \in Objects : NoEventAfter(link, 1, o)
            => (view'[o] = "active" <=> truth.objs[o] = "active")
      BY <2>4, <2>6
    <3>4. inStep' => (NoSwitchAfter(link, 1)
            => (CameraIsEnabled(store') <=> truth.enabled))
      BY <2>4, <2>6, <3>2
    <3>5. inStep' => IsExact(link[1])
      BY <1>2, <2>1, <2>6 DEF IsExact
    <3> QED
      BY <1>1, <3>3, <3>4, <3>5, Hears
  <2> QED
    BY <2>2, <2>5, <2>6
<1> QED
  BY <1>7, <1>8, <1>9

(* What the server publishes is what has happened to the camera; without a *)
(* connection nobody is in step and nothing is under way.                  *)
LEMMA ServerFollows ==
  ASSUME TypeInv, Following,
         \/ ObjectIsPublished \/ MotionChanges \/ SnapshotIsPublished \/ CommandIsExecuted
  PROVE  Following'
<1>0. truth \in Payloads /\ (socket # "open" => link = <<>> /\ reqs = <<>> /\ ~inStep)
      /\ inStep \in BOOLEAN
  BY DEF TypeInv, TypeOK, WireIsSound
<1>1. UNCHANGED <<view, store, inStep>>
  BY PublishedObjects
  DEF IsPublished, MotionChanges, SnapshotIsPublished, CommandIsExecuted, client,
      observers
<1>2. CASE socket # "open"
  <2>1. link' = link
    BY <1>0, <1>2, PublishedObjects
    DEF IsPublished, MotionChanges, SnapshotIsPublished, CommandIsExecuted, Publish
  <2>2. link' = <<>> /\ inStep' = FALSE
    BY <1>0, <1>1, <1>2, <2>1
  <2> QED
    BY <2>2, Empty
<1>3. CASE socket = "open"
  <2>1. CASE ObjectIsPublished
    <3>0. PICK o \in Objects, s \in Status : IsPublished(o, s)
      BY <2>1, PublishedObjects
    <3> DEFINE m == [type |-> "event", id |-> o, status |-> s]
    <3>1. link' = Append(link, m) /\ truth' = [truth EXCEPT !.objs[o] = s]
      BY <1>3, <3>0 DEF IsPublished, Publish
    <3>2. m \in Messages
      BY MessageTypes
    <3>3. \A x \in Objects :
            /\ IsEvent(m, x) => m.status = truth'.objs[x]
            /\ ~IsEvent(m, x) => truth'.objs[x] = truth.objs[x]
      BY <1>0, <3>1 DEF IsEvent, Payloads, Objs
    <3>4. m.type = "event" /\ truth'.enabled = truth.enabled
      BY <1>0, <3>1 DEF Payloads
    <3> HIDE DEF m
    <3> QED
      BY <1>1, <3>1, <3>2, <3>3, <3>4, Tells
  <2>2. CASE MotionChanges
    <3> DEFINE m == [type |-> "motion", on |-> ~truth.motion]
    <3>1. link' = Append(link, m) /\ truth' = [truth EXCEPT !.motion = ~@]
      BY <1>3, <2>2 DEF MotionChanges, Publish
    <3>2. m \in Messages
      <4>1. (~truth.motion) \in BOOLEAN
        BY <1>0 DEF Payloads
      <4> QED
        BY <4>1, MessageTypes
    <3>3. m.type = "motion" /\ truth'.enabled = truth.enabled
          /\ truth'.objs = truth.objs
      BY <1>0, <3>1 DEF Payloads
    <3> HIDE DEF m
    <3>4. \A x \in Objects : ~IsEvent(m, x)
      BY <3>3 DEF IsEvent
    <3> QED
      BY <1>1, <3>1, <3>2, <3>3, <3>4, Tells
  <2>3. CASE SnapshotIsPublished
    <3> DEFINE m == [type |-> "snapshot", payload |-> building,
                     exact |-> Exact(building)]
    <3>1. link' = Append(link, m) /\ truth' = truth /\ building # None
      BY <1>3, <2>3 DEF SnapshotIsPublished, Publish
    <3>2. m \in Messages
      <4>1. Exact(building) \in BOOLEAN /\ building \in Payloads
        BY <3>1 DEF Exact, TypeInv, TypeOK
      <4> QED
        BY <4>1, MessageTypes
    <3>3. m.type = "snapshot" /\ m.payload = building
          /\ (m.exact => building.objs = truth.objs /\ building.enabled = truth.enabled)
      BY DEF Exact
    <3> HIDE DEF m
    <3>4. \A x \in Objects : ~IsEvent(m, x)
      BY <3>3 DEF IsEvent
    <3> QED
      BY <1>1, <3>1, <3>2, <3>3, <3>4, Tells
  <2>4. CASE CommandIsExecuted
    <3> DEFINE on == EnabledBy(Head(reqs))
               m == [type |-> "enabled", on |-> on]
    <3>1. link' = Append(link, m) /\ truth' = [truth EXCEPT !.enabled = on]
      BY <1>3, <2>4 DEF CommandIsExecuted, Publish
    <3>2. on \in BOOLEAN /\ m \in Messages
      <4>1. on \in BOOLEAN
        BY DEF EnabledBy
      <4> QED
        BY <4>1, MessageTypes
    <3>3. m.type = "enabled" /\ m.on = on
      OBVIOUS
    <3> HIDE DEF m, on
    <3>4. truth'.enabled = on /\ truth'.objs = truth.objs
      BY <1>0, <3>1 DEF Payloads
    <3>5. \A x \in Objects : ~IsEvent(m, x)
      BY <3>3 DEF IsEvent
    <3>6. m.on <=> truth'.enabled
      BY <3>3, <3>4
    <3> QED
      BY <1>1, <3>1, <3>2, <3>3, <3>4, <3>5, <3>6, Tells
  <2> QED
    BY <2>1, <2>2, <2>3, <2>4
<1> QED
  BY <1>2, <1>3

(* Nobody is told that the objects are dropped, and nobody is in step.     *)
LEMMA DropFollows ==
  ASSUME TypeInv, Following, ObjectsAreDropped PROVE Following'
<1>1. /\ inStep' = FALSE /\ Len(link') = Len(link) /\ truth'.enabled = truth.enabled
      /\ \A i \in 1..Len(link) :
           /\ link[i].type # "snapshot" => link'[i] = link[i]
           /\ link[i].type = "snapshot" =>
                link'[i].type = "snapshot" /\ link'[i].exact = FALSE
  BY Dropped DEF ObjectsAreDropped, TypeInv, TypeOK, Payloads
<1>2. \A i \in 1..Len(link) : link'[i].type = link[i].type /\ ~IsExact(link'[i])
  BY <1>1 DEF IsExact
<1>3. EventsLead' /\ SnapshotsLead' /\ ViewLeads'
  BY <1>1, <1>2 DEF EventsLead, SnapshotsLead, ViewLeads, Led, IsExact
<1>4. \A i \in 1..Len(link) : NoSwitchAfter(link', i) => NoSwitchAfter(link, i)
  BY <1>1, <1>2 DEF NoSwitchAfter
<1>5. SwitchesLead'
  BY <1>1, <1>2, <1>4 DEF Following, SwitchesLead
<1> QED
  BY <1>3, <1>5 DEF Following

(* No other step touches what is under way or sets inStep. *)
LEMMA StepFollows ==
  ASSUME TypeInv, Following, [Next]_vars PROVE Following'
<1>0. store \in Stores /\ (inStep => mounted)
  BY DEF TypeInv, TypeOK, Stores, WireIsSound
<1>1. CASE UNCHANGED vars
  BY <1>1, Leaves DEF vars
<1>2. CASE ObjectIsListed \/ ActivityIsUpdated \/ SnapshotIsBuilt \/ OthersConnect \/ ReconnectTimer
            \/ SocketOpens \/ Visible \/ Command
  <2>1. link' = link /\ truth' = truth /\ view' = view /\ inStep' = inStep
    BY <1>2 DEF ObjectIsListed, ObjectMoves, ObjectIsForgotten, ActivityIsUpdated,
       SnapshotIsBuilt, OthersConnect, ReconnectTimer,
       SocketOpens, Visible, Command, server, wire, client, observers
  <2>2. store' = store \/ store' = Invalidated(store)
    BY <1>2 DEF ObjectIsListed, ObjectMoves, ObjectIsForgotten, ActivityIsUpdated,
       SnapshotIsBuilt, OthersConnect, ReconnectTimer,
       SocketOpens, Visible, Command, client, Resync
  <2>3. store'.enabled = store.enabled
    BY <1>0, <2>2 DEF Invalidated, Stores
  <2> QED
    BY <2>1, <2>3, Leaves
<1>3. CASE Mount \/ Unmount \/ ConfigRefetched
  <2>1. link' = link /\ truth' = truth /\ ~inStep'
    BY <1>0, <1>3 DEF Mount, Unmount, ConfigRefetched, server, wire, observers
  <2> QED
    BY <2>1, Leaves
<1>4. CASE SocketCloses \/ ProviderRestarts
  BY <1>4, Empty DEF SocketCloses, ProviderRestarts
<1> QED
  BY <1>1, <1>2, <1>3, <1>4, ServerFollows, DropFollows, ReceivingFollows
  DEF Next, ObjectIsPublished, ObjectIsListed

(* From an exact snapshot on the page shows the camera as it is whenever   *)
(* nothing is under way to it.                                             *)
THEOREM InStep == Spec => []InStepAgrees
<1>1. Init => Following
  BY DEF Init, Following, EventsLead, SwitchesLead, SnapshotsLead, ViewLeads
<1>2. TypeInv /\ Following => InStepAgrees
  <2> SUFFICES ASSUME TypeInv, Following, inStep, link = <<>> PROVE Matches
    BY DEF InStepAgrees
  <2>1. Len(link) = 0 /\ 1..Len(link) = {}
    OBVIOUS
  <2>2. NoSwitchAfter(link, 0) /\ \A o \in Objects : NoEventAfter(link, 0, o)
    BY <2>1 DEF NoSwitchAfter, NoEventAfter
  <2>3. /\ \A o \in Objects : view[o] = "active" <=> truth.objs[o] = "active"
        /\ CameraIsEnabled(store) <=> truth.enabled
    BY <2>2 DEF Following, ViewLeads
  <2>4. truth.enabled \in BOOLEAN /\ CameraIsEnabled(store) \in BOOLEAN
    BY DEF TypeInv, TypeOK, Payloads, CameraIsEnabled
  <2> QED
    BY <2>3, <2>4 DEF Matches
<1> QED
  BY <1>1, <1>2, SpecTypes, StepFollows, PTL DEF Spec
=============================================================================
