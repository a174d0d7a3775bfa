---------------------------- MODULE ActivityStore ----------------------------
(***************************************************************************)
(* What the browser shows of one camera: the websocket of WsProvider.tsx,  *)
(* the store of topics in api/ws.ts, and the objects use-camera-activity   *)
(* makes of them.  The server publishes an event when an object starts or  *)
(* ends, and one frame after it moves or stops.  The activity it answers   *)
(* onConnect with is brought up to date at the end of a frame, lists an    *)
(* object that has ended until the database has it, and is put together in *)
(* the thread of a connection, beside the thread that publishes.           *)
(*                                                                         *)
(* A message is processed, rendered and its effects are run in one step:   *)
(* useSyncExternalStore renders synchronously, and the resync of           *)
(* requestCameraActivityResync is a microtask of the same task.            *)
(***************************************************************************)
EXTENDS Naturals, Sequences

CONSTANTS
    None,           \* null, undefined
    Objects,        \* objects of the camera
    MaxChanges,     \* changes on the server, snapshots others ask for and
                    \* commands of the user, together
    MaxDrops,       \* connections lost or refused, stores reset
    MaxLink,        \* messages under way to the browser
    MaxReqs         \* requests under way when another is sent

ASSUME StoreAssumption ==
    /\ {MaxChanges, MaxDrops} \subseteq Nat
    /\ {MaxLink, MaxReqs} \subseteq Nat \ {0}

VARIABLES
    truth,      \* the camera: its objects as their events have them, the
                \* motion topic and whether it is enabled
    listed,     \* its tracked_objects, those that have ended among them
    last,       \* last_camera_activity of the dispatcher
    building,   \* the snapshot a connection's thread has built, or None
    link, reqs, \* messages under way to the browser and to the server
    socket,
    pending,    \* pendingSends: the last message of each topic, in order
    store,      \* wsState and lastCameraActivityPayload
    mounted,    \* a component uses useCameraActivity
    view,       \* its objects
    changes, commands, drops,       \* what has happened so far
    executed, inStep                \* observers: see below

server == <<truth, listed, last, building, changes>>
wire == <<link, reqs, socket, pending, drops>>
client == <<store, mounted, view>>
observers == <<executed, inStep>>
vars == <<truth, listed, last, building, link, reqs, socket, pending, store, mounted,
          view, changes, commands, drops, executed, inStep>>

Status == {"gone", "active", "stationary"}
Objs == [Objects -> Status]
Gone == [o \in Objects |-> "gone"]

\* The topics of the camera: camera_activity/<name> (snap), events, motion
\* and enabled/state, and the raw payload of the last snapshot.
Payloads == [objs : Objs, motion : BOOLEAN, enabled : BOOLEAN]
Events == [type : {"event"}, id : Objects, status : Status]
NoStore == [payload |-> None, snap |-> None, event |-> None,
            motion |-> None, enabled |-> None]

Messages == Events \cup [type : {"motion", "enabled"}, on : BOOLEAN]
            \cup [type : {"snapshot"}, payload : Payloads, exact : BOOLEAN]

\* null is none of the values it stands in for.
ASSUME NoneAssumption == None \notin BOOLEAN \cup Payloads \cup Events

\* Requests: onConnect, and the n-th command, <camera>/enabled/set.
onConnect == 0
Requests == 0..MaxChanges
EnabledBy(n) == n % 2 = 0
----------------------------------------------------------------------------
(* use-camera-activity.ts *)

\* Mutant: only what a snapshot has brought is updated.
ApplyKnown(v, e) == IF v[e.id] = "gone" THEN v ELSE [v EXCEPT ![e.id] = e.status]

\* The effect of an event: objects that are not known are added unless they
\* are stationary.
ApplyEvent(v, e) ==
    IF e.status = "stationary" /\ v[e.id] = "gone" THEN v
    ELSE [v EXCEPT ![e.id] = e.status]

\* Both effects, as they run when the component is mounted and when the
\* camera of the configuration is another object: first the snapshot that is
\* stored, then the last event.
BothEffects(v, s) ==
    LET shown == IF s.snap = None THEN v ELSE s.snap.objs
    IN IF s.event = None THEN shown ELSE ApplyEvent(shown, s.event)

\* What a render makes of the topics.
CameraIsEnabled(s) == s.enabled = None \/ s.enabled
ActiveTracking(v, s) ==
    CameraIsEnabled(s) /\ \E o \in Objects : v[o] = "active"
ActiveMotion(s) ==
    /\ CameraIsEnabled(s)
    /\ IF s.motion # None THEN s.motion ELSE s.snap # None /\ s.snap.motion
----------------------------------------------------------------------------
(* WsProvider.tsx and api/ws.ts: sending *)

SameTopic(a, b) == (a = onConnect) = (b = onConnect)

\* Mutant: what waits is not replaced.
PutBehind(p, r) == Append(p, r)

Put(p, r) ==
    IF \E i \in DOMAIN p : SameTopic(p[i], r)
    THEN [i \in DOMAIN p |-> IF SameTopic(p[i], r) THEN r ELSE p[i]]
    ELSE Append(p, r)

\* sendJsonMessage.
Send(r) ==
    IF socket = "open"
    THEN /\ Len(reqs) < MaxReqs
         /\ reqs' = Append(reqs, r) /\ UNCHANGED pending
    ELSE pending' = Put(pending, r) /\ UNCHANGED reqs

Invalidated(s) == [s EXCEPT !.payload = None]

\* Mutant: the cache is kept.
ResyncCached(s) == store' = s /\ Send(onConnect)

\* requestCameraActivityResync, and the microtask it queues.
Resync(s) == store' = Invalidated(s) /\ Send(onConnect)

Init ==
    /\ truth = [objs |-> Gone, motion |-> FALSE, enabled |-> TRUE]
    /\ listed = Gone /\ last = [objs |-> Gone, motion |-> FALSE]
    /\ building = None
    /\ link = <<>> /\ reqs = <<>> /\ socket = "connecting" /\ pending = <<>>
    /\ store = NoStore /\ mounted = FALSE /\ view = Gone
    /\ changes = 0 /\ commands = 0 /\ drops = 0
    /\ executed = 0 /\ inStep = FALSE
----------------------------------------------------------------------------
(* the server *)

\* A message goes to the browser if it is connected.
Publish(m) ==
    IF socket = "open"
    THEN Len(link) < MaxLink /\ link' = Append(link, m)
    ELSE UNCHANGED link

\* start and end, an end that disabling the camera forces included.  The
\* object stays in tracked_objects; its id is not given to another one.
ObjectStarts(o, s) ==
    /\ changes + commands < MaxChanges
    /\ truth.objs[o] = "gone" /\ listed[o] = "gone" /\ s # "gone"
    /\ truth' = [truth EXCEPT !.objs[o] = s] /\ listed' = [listed EXCEPT ![o] = s]
    /\ Publish([type |-> "event", id |-> o, status |-> s])
    /\ changes' = changes + 1
    /\ UNCHANGED <<last, building, reqs, socket, pending, drops, client,
                   commands, observers>>

ObjectEnds(o) ==
    /\ changes + commands < MaxChanges /\ truth.objs[o] # "gone"
    /\ truth' = [truth EXCEPT !.objs[o] = "gone"]
    /\ Publish([type |-> "event", id |-> o, status |-> "gone"])
    /\ changes' = changes + 1
    /\ UNCHANGED <<listed, last, building, reqs, socket, pending, drops, client,
                   commands, observers>>

\* is_active changes with the frame, the flag of the events with the next.
ObjectMoves(o, s) ==
    /\ changes + commands < MaxChanges
    /\ truth.objs[o] # "gone" /\ s \notin {"gone", listed[o]}
    /\ listed' = [listed EXCEPT ![o] = s]
    /\ changes' = changes + 1
    /\ UNCHANGED <<truth, last, building, wire, client, commands, observers>>

ObjectIsReported(o) ==
    /\ truth.objs[o] \notin {"gone", listed[o]}
    /\ truth' = [truth EXCEPT !.objs[o] = listed[o]]
    /\ Publish([type |-> "event", id |-> o, status |-> listed[o]])
    /\ UNCHANGED <<listed, last, building, changes, reqs, socket, pending, drops,
                   client, commands, observers>>

\* finished(): the database has the end.  It is asked for after a frame.
ObjectIsForgotten(o) ==
    /\ truth.enabled /\ truth.objs[o] = "gone" /\ listed[o] # "gone"
    /\ listed' = [listed EXCEPT ![o] = "gone"]
    /\ UNCHANGED <<truth, last, building, changes, wire, client, commands,
                   observers>>

\* A frame with another resolution: the objects are dropped without an event.
\* Snapshots that have been sent are not exact any more.
ObjectsAreDropped ==
    /\ changes + commands < MaxChanges /\ truth.enabled
    /\ truth' = [truth EXCEPT !.objs = Gone] /\ listed' = Gone
    /\ link' = [i \in DOMAIN link |-> IF link[i].type = "snapshot"
                   THEN [link[i] EXCEPT !.exact = FALSE] ELSE link[i]]
    /\ inStep' = FALSE
    /\ changes' = changes + 1
    /\ UNCHANGED <<last, building, reqs, socket, pending, drops, client,
                   commands, executed>>

\* update_mqtt_motion.
MotionChanges ==
    /\ changes + commands < MaxChanges
    /\ truth' = [truth EXCEPT !.motion = ~@]
    /\ Publish([type |-> "motion", on |-> ~truth.motion])
    /\ changes' = changes + 1
    /\ UNCHANGED <<listed, last, building, reqs, socket, pending, drops, client,
                   commands, observers>>

\* The end of a frame, with motion boxes or, until the OFF is due, without
\* them; or of force_end_all_events, after which there is no frame.
ActivityIsUpdated ==
    /\ \/ /\ truth.enabled
          /\ \E motion \in {truth.motion, FALSE} :
                last' = [objs |-> listed, motion |-> motion]
       \/ /\ ~truth.enabled
          /\ last' = [objs |-> Gone, motion |-> FALSE]
    /\ UNCHANGED <<truth, listed, building, changes, wire, client, commands,
                   observers>>

SnapshotNow == [objs |-> last.objs, motion |-> last.motion,
                enabled |-> truth.enabled]

\* onConnect of this browser.
SnapshotIsBuilt ==
    /\ building = None
    /\ reqs # <<>> /\ Head(reqs) = onConnect
    /\ building' = SnapshotNow /\ reqs' = Tail(reqs)
    /\ UNCHANGED <<truth, listed, last, changes, link, socket, pending, drops, client,
                   commands, observers>>

\* onConnect of another one: the answer goes to all.
OthersConnect ==
    /\ building = None /\ changes + commands < MaxChanges
    /\ building' = SnapshotNow /\ changes' = changes + 1
    /\ UNCHANGED <<truth, listed, last, wire, client, commands, observers>>

Exact(p) == p.objs = truth.objs /\ p.enabled = truth.enabled

SnapshotIsPublished ==
    /\ building # None
    /\ Publish([type |-> "snapshot", payload |-> building,
                exact |-> Exact(building)])
    /\ building' = None
    /\ UNCHANGED <<truth, listed, last, changes, reqs, socket, pending, drops,
                   client, commands, observers>>

CommandIsExecuted ==
    /\ reqs # <<>> /\ Head(reqs) # onConnect
    /\ truth' = [truth EXCEPT !.enabled = EnabledBy(Head(reqs))]
    /\ Publish([type |-> "enabled", on |-> EnabledBy(Head(reqs))])
    /\ reqs' = Tail(reqs)
    /\ executed' = Head(reqs)
    /\ UNCHANGED <<listed, last, building, changes, socket, pending, drops,
                   client, commands, inStep>>
----------------------------------------------------------------------------
(* the connection *)

ReconnectTimer ==
    /\ socket = "waiting"
    /\ socket' = "connecting"
    /\ UNCHANGED <<server, link, reqs, pending, drops, client, commands,
                   observers>>

\* Mutant: the queue is kept.
SocketOpensAgain ==
    /\ socket = "connecting"
    /\ socket' = "open"
    /\ store' = Invalidated(store)
    /\ reqs' = <<onConnect>> \o pending
    /\ UNCHANGED <<server, link, pending, drops, mounted, view, commands,
                   observers>>

\* Mutant: the queue is cleared before it is sent.
SocketOpensEmpty ==
    /\ socket = "connecting"
    /\ socket' = "open"
    /\ store' = Invalidated(store)
    /\ reqs' = <<onConnect>> /\ pending' = <<>>
    /\ UNCHANGED <<server, link, drops, mounted, view, commands, observers>>

\* onopen: a snapshot is asked for and what was queued is sent.
SocketOpens ==
    /\ socket = "connecting"
    /\ socket' = "open"
    /\ store' = Invalidated(store)
    /\ reqs' = <<onConnect>> \o pending /\ pending' = <<>>
    /\ UNCHANGED <<server, link, drops, mounted, view, commands, observers>>

\* onclose and onerror: what is under way is lost.
SocketCloses ==
    /\ socket # "waiting" /\ drops < MaxDrops
    /\ socket' = "waiting" /\ drops' = drops + 1
    /\ link' = <<>> /\ reqs' = <<>>
    /\ inStep' = FALSE
    /\ UNCHANGED <<server, pending, client, commands, executed>>

\* The provider is unmounted and mounted again: resetWsStore.
ProviderRestarts ==
    /\ drops < MaxDrops /\ drops' = drops + 1
    /\ socket' = "connecting"
    /\ link' = <<>> /\ reqs' = <<>> /\ pending' = <<>>
    /\ store' = NoStore /\ mounted' = FALSE /\ view' = Gone
    /\ inStep' = FALSE
    /\ UNCHANGED <<server, commands, executed>>
----------------------------------------------------------------------------
(* processWsMessage and the effects it causes *)

Received == /\ link' = Tail(link)
            /\ UNCHANGED <<server, reqs, socket, pending, drops, mounted,
                           commands, executed>>

ReceiveEvent ==
    /\ link # <<>> /\ Head(link).type = "event"
    /\ store' = [store EXCEPT !.event = Head(link)]
    /\ view' = IF mounted THEN ApplyEvent(view, Head(link)) ELSE view
    /\ Received /\ UNCHANGED inStep

ReceiveState ==
    /\ link # <<>>
    /\ \/ /\ Head(link).type = "motion"
          /\ store' = [store EXCEPT !.motion = Head(link).on]
       \/ /\ Head(link).type = "enabled"
          /\ store' = [store EXCEPT !.enabled = Head(link).on]
    /\ Received /\ UNCHANGED <<view, inStep>>

\* applyCameraActivity: nothing is done for a payload seen before.
ReceiveSnapshot ==
    /\ link # <<>> /\ Head(link).type = "snapshot"
    /\ LET p == Head(link).payload
       IN IF p = store.payload THEN UNCHANGED <<store, view, inStep>>
          ELSE /\ store' = [store EXCEPT !.payload = p,
                                !.snap = [objs |-> p.objs, motion |-> p.motion],
                                !.enabled = p.enabled]
               /\ view' = IF mounted THEN p.objs ELSE view
               /\ inStep' = (mounted /\ Head(link).exact)
    /\ Received
----------------------------------------------------------------------------
(* the page *)

Mount ==
    /\ ~mounted
    /\ mounted' = TRUE
    /\ view' = BothEffects(Gone, store)
    /\ Resync(store)
    /\ UNCHANGED <<server, link, socket, drops, commands, observers>>

Unmount ==
    /\ mounted
    /\ mounted' = FALSE /\ view' = Gone /\ inStep' = FALSE
    /\ UNCHANGED <<server, wire, store, commands, executed>>

\* The user comes back to the tab.
Visible ==
    /\ mounted
    /\ Resync(store)
    /\ UNCHANGED <<server, link, socket, drops, mounted, view, commands,
                   observers>>

\* Another configuration has been fetched: the camera is another object.
ConfigRefetched ==
    /\ mounted
    /\ view' = BothEffects(view, store)
    /\ inStep' = FALSE
    /\ UNCHANGED <<server, wire, store, mounted, commands, executed>>

Command ==
    /\ changes + commands < MaxChanges /\ commands' = commands + 1
    /\ Send(commands + 1)
    /\ UNCHANGED <<server, link, socket, drops, client, observers>>
----------------------------------------------------------------------------
Next ==
    \/ \E o \in Objects, s \in Status : ObjectStarts(o, s) \/ ObjectMoves(o, s)
    \/ \E o \in Objects : ObjectEnds(o) \/ ObjectIsReported(o)
    \/ \E o \in Objects : ObjectIsForgotten(o)
    \/ ObjectsAreDropped \/ MotionChanges \/ ActivityIsUpdated
    \/ SnapshotIsBuilt \/ OthersConnect \/ SnapshotIsPublished
    \/ CommandIsExecuted
    \/ ReconnectTimer \/ SocketOpens \/ SocketCloses \/ ProviderRestarts
    \/ ReceiveEvent \/ ReceiveState \/ ReceiveSnapshot
    \/ Mount \/ Unmount \/ Visible \/ ConfigRefetched \/ Command

Spec == Init /\ [][Next]_vars

\* Threads of the server go on, messages are delivered, the reconnect timer
\* fires and the socket opens or is refused.
FairSpec ==
    /\ Spec
    /\ WF_vars(SnapshotIsBuilt) /\ WF_vars(SnapshotIsPublished)
    /\ WF_vars(CommandIsExecuted)
    /\ WF_vars(ReconnectTimer) /\ WF_vars(SocketOpens)
    /\ WF_vars(ReceiveEvent \/ ReceiveState \/ ReceiveSnapshot)
----------------------------------------------------------------------------
TypeOK ==
    /\ truth \in Payloads
    /\ listed \in Objs /\ last \in [objs : Objs, motion : BOOLEAN]
    /\ building \in Payloads \cup {None}
    /\ link \in Seq(Messages) /\ reqs \in Seq(Requests)
    /\ socket \in {"connecting", "open", "waiting"}
    /\ pending \in Seq(Requests) /\ Len(pending) <= 2
    /\ store \in [payload : Payloads \cup {None},
                  snap : [objs : Objs, motion : BOOLEAN] \cup {None},
                  event : Events \cup {None},
                  motion : BOOLEAN \cup {None}, enabled : BOOLEAN \cup {None}]
    /\ mounted \in BOOLEAN /\ view \in Objs
    /\ changes \in 0..MaxChanges /\ commands \in 0..MaxChanges
    /\ drops \in 0..MaxDrops
    /\ executed \in 0..commands /\ inStep \in BOOLEAN

\* The objects held to be active are, and so is the state of the camera.
Matches == /\ \A o \in Objects : view[o] = "active" <=> truth.objs[o] = "active"
           /\ CameraIsEnabled(store) = truth.enabled

\* From a snapshot that was true when it was published until the connection
\* is lost, the component or the configuration changes, a later snapshot lags
\* behind or the camera drops its objects without an event, the events keep
\* the view in step with the camera: when all messages have arrived they agree.
InStepAgrees == inStep /\ link = <<>> => Matches

\* What is shown is so: of a camera that is disabled no objects are.
Agrees ==
    /\ CameraIsEnabled(store) = truth.enabled
    /\ truth.enabled =>
          \A o \in Objects : view[o] = "active" <=> truth.objs[o] = "active"

\* A command is not executed again, nor after a newer one, whatever was
\* queued while there was no connection.
NoOldCommandReturns == [][executed' >= executed]_executed

\* The last command, queued when the connection is lost for the last time, is
\* executed and stays in force.
CommandsArrive ==
    (drops = MaxDrops /\ \E i \in DOMAIN pending : pending[i] = MaxChanges)
        ~> [](executed = MaxChanges)

\* A camera that is enabled goes on sending frames: its activity is brought up
\* to date, what has ended is forgotten and what has moved is reported.
FramesKeepComing ==
    /\ WF_vars(ActivityIsUpdated)
    /\ WF_vars(\E o \in Objects : ObjectIsForgotten(o))
    /\ SF_vars(\E o \in Objects : ObjectIsReported(o))

\* Whatever has come between the view and the camera (missed events, objects
\* that were dropped, answers that lagged behind, a snapshot shown again),
\* coming back to the tab again and again heals it, once the configuration is
\* left alone and if the camera goes on sending frames.
HealsOnFocus == /\ FramesKeepComing
                /\ <>[]mounted /\ []<><<Visible>>_vars
                /\ <>[][~ConfigRefetched]_vars
                => <>[]Agrees

\* hooks/use-camera-activity.ts: the effect of the snapshot "must only run on
\* snapshot arrival, or it would re-assert a stale snapshot over newer
\* event-driven state".
NewerStateStays ==
    [][ConfigRefetched /\ link = <<>> /\ Agrees => Agrees']_vars
=============================================================================
