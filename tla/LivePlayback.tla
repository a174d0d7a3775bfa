---------------------------- MODULE LivePlayback ----------------------------
(***************************************************************************)
(* One camera of the live dashboard: the live mode kept by                 *)
(* use-camera-live-mode.ts and lowered by LiveDashboardView.tsx, the       *)
(* LivePlayer that shows a still or a player, and the two players that     *)
(* hold a connection, WebRTCPlayer.tsx and MsePlayer.tsx.                  *)
(*                                                                         *)
(* A step is one event and the renders and effects it causes.  A player    *)
(* whose mode or key changes is mounted anew and starts from NoMse or      *)
(* NoRtc; the timers of the old one find no video element and do nothing.  *)
(* A stall timer is set again by each progress event, so it only fires     *)
(* ("late") once the media has stopped coming.                             *)
(*                                                                         *)
(* MsePlayer never connects again by itself.  reconnect does nothing after *)
(* onDisconnect (intentionalDisconnectRef), which is how a media error     *)
(* calls it; and the onClose a socket gets is the one of the render that   *)
(* made onConnect, whose wsState is CLOSED, so it returns at once.         *)
(***************************************************************************)
EXTENDS Naturals

CONSTANT
    MaxErrors       \* media errors an MSE player takes: 3

ASSUME LiveAssumption == MaxErrors \in Nat

VARIABLES
    browser,        \* what it has: RTCPeerConnection, a MediaSource, and whether
                    \* that is Safari's ManagedMediaSource
    streaming,      \* streamType of the camera: "none", "smart", "continuous"
    restreamed,     \* the chosen stream is one of go2rtc's
    mode,           \* preferredLiveModes of the camera
    liveReady,
    motion,         \* activeMotion or activeTracking, and the camera is in view
    visible,        \* the document is visible
    enabled,        \* the camera is enabled
    idleTimer,      \* the 500 ms after the activity stops
    mse, rtc        \* the player that is mounted, if it is one of these

vars == <<browser, streaming, restreamed, mode, liveReady, motion, visible, enabled,
          idleTimer, mse, rtc>>

Browsers == {b \in SUBSET {"webrtc", "mse", "managed"} : "managed" \in b => "mse" \in b}
Types == {"none", "smart", "continuous"}
Modes == {"webrtc", "mse", "jsmpeg"}
StallTimers == {"off", "running", "late"}

(* source is the media source of the video element, which a disconnect     *)
(* leaves there; step is how far the player is with its socket.            *)
MseStates == [ws: {"none", "connecting", "open", "dead"},
              source: {"none", "opening", "open"},
              step: {"idle", "asked", "answered"},
              playing: BOOLEAN, stallTimer: StallTimers, errors: 0..MaxErrors]
RtcStates == [pc: BOOLEAN, loadTimer: BOOLEAN, stallTimer: StallTimers]

NoMse == [ws |-> "none", source |-> "none", step |-> "idle", playing |-> FALSE,
          stallTimer |-> "off", errors |-> 0]
NoRtc == [pc |-> FALSE, loadTimer |-> FALSE, stallTimer |-> "off"]
----------------------------------------------------------------------------
BestMode(restr) ==
    IF ~restr THEN "jsmpeg"
    ELSE IF "webrtc" \in browser THEN "webrtc"
    ELSE IF "mse" \in browser THEN "mse" ELSE "jsmpeg"

DefaultMode == BestMode(restreamed)

\* handleError of the dashboard: one step down.
Lower(m) == IF m = "webrtc" THEN "mse" ELSE "jsmpeg"

CameraActive(type, mot, vis) == type = "continuous" \/ (vis /\ mot)
Active == CameraActive(streaming, motion, visible)

PlaybackEnabled == Active \/ liveReady

\* autoLive and the camera is enabled: there is a player.
Plays(type, en) == type # "none" /\ en

MseMounted == Plays(streaming, enabled) /\ mode = "mse" /\ "mse" \in browser
RtcMounted == Plays(streaming, enabled) /\ mode = "webrtc"

\* onConnect: not while there is a socket, even a dead one.
Connect(p) == IF p.ws = "none" THEN [p EXCEPT !.ws = "connecting"] ELSE p

\* What a stall timer does once no progress comes to set it again.
Unfed(timer) == IF timer = "off" THEN "off" ELSE "late"

\* Mutant: a socket that is not open yet is not closed.
DisconnectOpen(p, fresh) ==
    [p EXCEPT !.ws = IF @ = "connecting" THEN @ ELSE "none", !.step = "idle",
              !.playing = FALSE, !.stallTimer = IF fresh THEN "off" ELSE Unfed(@)]

\* onDisconnect.  The copy an effect's cleanup holds knows no stall timer.
Disconnect(p, fresh) ==
    [p EXCEPT !.ws = "none", !.step = "idle", !.playing = FALSE,
              !.stallTimer = IF fresh THEN "off" ELSE Unfed(@)]

\* The players when playback is switched on or off.
MsePlayback(p, on) == IF on THEN Connect(p) ELSE Disconnect(p, FALSE)
RtcPlayback(p, on) ==
    [p EXCEPT !.pc = on, !.stallTimer = IF on THEN @ ELSE Unfed(@)]

PlaybackBecomes(on) ==
    /\ mse' = IF MseMounted THEN MsePlayback(mse, on) ELSE mse
    /\ rtc' = IF RtcMounted THEN RtcPlayback(rtc, on) ELSE rtc

\* A new instance of the player of mode m, if there is to be one.
MountMse(m, plays, on) ==
    IF plays /\ m = "mse" /\ "mse" \in browser /\ on THEN Connect(NoMse) ELSE NoMse
MountRtc(m, plays, on) ==
    IF plays /\ m = "webrtc" THEN [NoRtc EXCEPT !.pc = on, !.loadTimer = TRUE]
    ELSE NoRtc

\* The rest of a step in which the mode becomes m or the key changes: the
\* old player is gone and the still is shown.
Remount(m, plays, on) ==
    /\ mode' = m /\ liveReady' = FALSE /\ idleTimer' = FALSE
    /\ mse' = MountMse(m, plays, on)
    /\ rtc' = MountRtc(m, plays, on)

\* Mutant: the window is forgotten.
IdleTimerInWindow(ready, type, mot, vis) == ready /\ type # "continuous" /\ ~mot

\* The 500 ms run while the player is shown without activity.
IdleTimerRuns(ready, type, mot, vis) == ready /\ ~CameraActive(type, mot, vis)

Settings == <<browser, streaming, restreamed>>
Environment == <<Settings, motion, visible, enabled>>

\* The player disconnects and reports an error.
ErrorReported == /\ Remount(Lower(mode), Plays(streaming, enabled), Active)
                 /\ UNCHANGED Environment

\* onPlaying: the player is shown.
Shown == /\ liveReady' = TRUE
         /\ idleTimer' = IdleTimerRuns(TRUE, streaming, motion, visible)

Init ==
    /\ browser \in Browsers /\ streaming \in Types /\ restreamed \in BOOLEAN
    /\ mode = DefaultMode /\ liveReady = FALSE
    /\ motion \in BOOLEAN /\ visible = TRUE /\ enabled = TRUE
    /\ idleTimer = FALSE
    /\ mse = MountMse(mode, Plays(streaming, TRUE), Active)
    /\ rtc = MountRtc(mode, Plays(streaming, TRUE), Active)
----------------------------------------------------------------------------
(* the camera, the window and the timer of LivePlayer *)

\* The activity starts or stops: playback goes on while the player is shown.
Motion ==
    /\ motion' = ~motion
    /\ LET on == CameraActive(streaming, ~motion, visible) \/ liveReady
       IN IF on = PlaybackEnabled THEN UNCHANGED <<mse, rtc>>
          ELSE PlaybackBecomes(on)
    /\ idleTimer' = IdleTimerRuns(liveReady, streaming, ~motion, visible)
    /\ UNCHANGED <<Settings, mode, liveReady, visible, enabled>>

\* The listener of the MSE player, and then the mode of every camera is
\* chosen anew because windowVisible changed.
Visibility ==
    /\ visible' = ~visible
    /\ LET active == CameraActive(streaming, motion, ~visible)
           on == active \/ liveReady
           heard == IF visible THEN Disconnect(mse, TRUE)
                    ELSE IF PlaybackEnabled THEN Connect(mse) ELSE mse
       IN IF mode # DefaultMode
          THEN Remount(DefaultMode, Plays(streaming, enabled), active)
          ELSE /\ mse' = IF ~MseMounted THEN mse
                         ELSE IF on = PlaybackEnabled THEN heard
                         ELSE MsePlayback(heard, on)
               /\ rtc' = IF RtcMounted THEN RtcPlayback(rtc, on) ELSE rtc
               /\ idleTimer' = IdleTimerRuns(liveReady, streaming, motion, ~visible)
               /\ UNCHANGED <<mode, liveReady>>
    /\ UNCHANGED <<Settings, motion, enabled>>

CameraEnabled ==
    /\ enabled' = ~enabled
    /\ Remount(mode, Plays(streaming, ~enabled), Active)
    /\ UNCHANGED <<Settings, motion, visible>>

\* Another stream of the camera is chosen: resetPlayer, and the modes anew.
StreamChanges ==
    \E r \in BOOLEAN :
        /\ restreamed' = r
        /\ Remount(BestMode(r), Plays(streaming, enabled), Active)
        /\ UNCHANGED <<browser, streaming, motion, visible, enabled>>

\* The viewer has the camera streamed always, when it is active, or never.
\* The settings are another object, so the modes are chosen anew as well.
StreamTypeChanges ==
    /\ visible
    /\ \E type \in Types \ {streaming} :
        /\ streaming' = type
        /\ LET active == CameraActive(type, motion, visible)
               on == active \/ liveReady
           IN IF mode # DefaultMode \/ "none" \in {streaming, type}
              THEN Remount(DefaultMode, Plays(type, enabled), active)
              ELSE /\ IF on = PlaybackEnabled THEN UNCHANGED <<mse, rtc>>
                      ELSE PlaybackBecomes(on)
                   /\ idleTimer' = IdleTimerRuns(liveReady, type, motion, visible)
                   /\ UNCHANGED <<mode, liveReady>>
    /\ UNCHANGED <<browser, restreamed, motion, visible, enabled>>

\* The modes are chosen anew for another configuration or other metadata.
ModesAnew ==
    /\ mode # DefaultMode
    /\ Remount(DefaultMode, Plays(streaming, enabled), Active)
    /\ UNCHANGED Environment

\* setLiveReady(false) and onResetLiveMode.
IdleTimerFires ==
    /\ idleTimer
    /\ IF mode # DefaultMode
       THEN Remount(DefaultMode, Plays(streaming, enabled), Active)
       ELSE /\ liveReady' = FALSE /\ idleTimer' = FALSE
            /\ PlaybackBecomes(FALSE)
            /\ UNCHANGED mode
    /\ UNCHANGED Environment

JsmpegPlays ==
    /\ Plays(streaming, enabled) /\ mode = "jsmpeg"
    /\ PlaybackEnabled /\ ~liveReady
    /\ Shown
    /\ UNCHANGED <<mode, mse, rtc, Environment>>
----------------------------------------------------------------------------
(* WebRTC *)

RtcLoads ==
    /\ rtc.pc
    /\ ~liveReady \/ rtc.loadTimer
    /\ rtc' = [rtc EXCEPT !.loadTimer = FALSE]
    /\ Shown
    /\ UNCHANGED <<mode, mse, Environment>>

RtcChanges(p) == /\ rtc' = p
                 /\ UNCHANGED <<mode, liveReady, idleTimer, mse, Environment>>

RtcProgress ==
    /\ rtc.pc /\ liveReady /\ rtc.stallTimer # "running"
    /\ RtcChanges([rtc EXCEPT !.stallTimer = "running"])

\* Nothing comes any more, for now or for good.
RtcStalls ==
    /\ rtc.stallTimer = "running"
    /\ RtcChanges([rtc EXCEPT !.stallTimer = "late"])

\* It is set when the player is mounted, whether it connects or not.
RtcLoadTimeout ==
    /\ rtc.loadTimer
    /\ ErrorReported

RtcStallTimeout ==
    /\ rtc.stallTimer = "late"
    /\ IF visible /\ rtc.pc THEN ErrorReported
       ELSE RtcChanges([rtc EXCEPT !.stallTimer = "off"])

RtcNetworkError ==
    /\ rtc.pc
    /\ ErrorReported
----------------------------------------------------------------------------
(* MSE *)

MseChanges(p) == /\ mse' = p
                 /\ UNCHANGED <<mode, liveReady, idleTimer, rtc, Environment>>

\* onOpen gives the video a media source of its own for this connection.
SocketOpens ==
    /\ mse.ws = "connecting"
    /\ MseChanges([mse EXCEPT !.ws = "open", !.source = "opening"])

SocketIsRefused ==
    /\ mse.ws = "connecting"
    /\ MseChanges([mse EXCEPT !.ws = "dead"])

SocketCloses ==
    /\ mse.ws = "open"
    /\ MseChanges([mse EXCEPT !.ws = "dead", !.stallTimer = Unfed(@)])

\* sourceopen: sendWithTimeout asks for the codecs, and rejects without an
\* open socket.  The source may be the one of an earlier connection: then the
\* error is the new socket's, or only Safari's if there is none.
SourceOpens ==
    /\ mse.source = "opening"
    /\ LET opened == [mse EXCEPT !.source = "open"]
       IN \/ mse.ws = "open" /\ MseChanges([opened EXCEPT !.step = "asked"])
          \/ mse.ws \in {"connecting", "dead"} /\ ErrorReported
          \/ mse.ws = "none" /\ "managed" \in browser /\ ErrorReported
          \/ mse.ws = "none" /\ "managed" \notin browser /\ MseChanges(opened)

\* Safari may refuse the codec that is answered.
MseAnswer ==
    /\ mse.ws = "open" /\ mse.step = "asked"
    /\ \/ MseChanges([mse EXCEPT !.step = "answered"])
       \/ "managed" \in browser /\ ErrorReported

\* Mutant: the rejected promise is not caught.
MseTimeoutUncaught ==
    /\ mse.step = "asked"
    /\ MseChanges([mse EXCEPT !.step = "idle"])

MseTimeout ==
    /\ mse.step = "asked"
    /\ ErrorReported

\* The video element reports play, which needs no data, or its metadata.
PlayBegins ==
    /\ mse.ws = "open" /\ ~mse.playing
    /\ mse' = [mse EXCEPT !.playing = TRUE]
    /\ Shown
    /\ UNCHANGED <<mode, rtc, Environment>>

\* Data is appended: the video reports progress, which sets the stall timer
\* again, and plays.
MediaArrives ==
    /\ mse.ws = "open" /\ mse.step = "answered"
    /\ ~(mse.playing /\ mse.stallTimer = "running" /\ liveReady)
    /\ mse' = [mse EXCEPT !.playing = TRUE, !.stallTimer = "running"]
    /\ Shown
    /\ UNCHANGED <<mode, rtc, Environment>>

\* Nothing comes any more, for now or for good.
MediaStalls ==
    /\ mse.stallTimer = "running"
    /\ MseChanges([mse EXCEPT !.stallTimer = "late"])

\* More than ten seconds are buffered.
BufferTooLong ==
    /\ mse.ws = "open" /\ mse.playing
    /\ ErrorReported

BufferTimeout ==
    /\ mse.stallTimer = "late"
    /\ IF visible /\ mse.ws # "none" THEN ErrorReported
       ELSE MseChanges([mse EXCEPT !.stallTimer = "off"])

\* A network error, or one of Safari's decoder: with a socket or without.
MediaNetworkError ==
    /\ mse.source = "open"
    /\ ErrorReported

\* Mutant: one error too many.
MediaErrorOnceMore ==
    /\ mse.source = "open"
    /\ IF mse.ws # "none" /\ mse.errors > MaxErrors THEN ErrorReported
       ELSE MseChanges([Disconnect(mse, TRUE) EXCEPT !.errors = @ + 1])

\* Any other media error: the player gives up its connection, and after
\* MaxErrors it says so; without a socket it only counts.
MediaError ==
    /\ mse.source = "open"
    /\ LET count == IF mse.errors < MaxErrors THEN mse.errors + 1 ELSE MaxErrors
       IN IF mse.ws = "none" THEN MseChanges([mse EXCEPT !.errors = count])
          ELSE IF mse.errors >= MaxErrors THEN ErrorReported
          ELSE MseChanges([Disconnect(mse, TRUE) EXCEPT !.errors = count])
----------------------------------------------------------------------------
Player == \/ JsmpegPlays
          \/ RtcLoads \/ RtcProgress \/ RtcStalls \/ RtcNetworkError
          \/ SocketOpens \/ SocketIsRefused \/ SocketCloses \/ SourceOpens \/ MseAnswer
          \/ PlayBegins \/ MediaArrives \/ MediaStalls \/ BufferTooLong
          \/ MediaNetworkError \/ MediaError
Timers == \/ IdleTimerFires \/ RtcLoadTimeout \/ RtcStallTimeout
          \/ MseTimeout \/ BufferTimeout
Next == \/ Motion \/ Visibility \/ CameraEnabled
        \/ StreamChanges \/ StreamTypeChanges \/ ModesAnew
        \/ Player \/ Timers

Spec == Init /\ [][Next]_vars

\* Timers fire, and the browser's own work ends: a socket opens or is
\* refused, a media source opens.  Nothing is assumed of media.
FairSpec ==
    /\ Spec
    /\ WF_vars(IdleTimerFires) /\ WF_vars(RtcLoadTimeout)
    /\ WF_vars(RtcStallTimeout)
    /\ WF_vars(MseTimeout) /\ WF_vars(BufferTimeout)
    /\ WF_vars(SocketOpens \/ SocketIsRefused) /\ WF_vars(SourceOpens)
----------------------------------------------------------------------------
(* The state of the hook, the player and the connections keeps its shape. *)
TypeOK ==
    /\ browser \in Browsers /\ streaming \in Types /\ mode \in Modes
    /\ restreamed \in BOOLEAN /\ liveReady \in BOOLEAN /\ idleTimer \in BOOLEAN
    /\ motion \in BOOLEAN /\ visible \in BOOLEAN /\ enabled \in BOOLEAN
    /\ mse \in MseStates /\ rtc \in RtcStates

HasSocket == mse.ws \in {"connecting", "open"}

\* A connection to go2rtc is only held for a camera that is enabled and
\* streamed, by the player of its mode, and while it is active or the player
\* is shown; MSE sockets in a hidden window only for a continuous stream,
\* whose player connects when it is mounted there.
NoIdleConnections ==
    /\ HasSocket => /\ Plays(streaming, enabled) /\ mode = "mse" /\ PlaybackEnabled
                    /\ visible \/ streaming = "continuous"
    /\ rtc.pc => Plays(streaming, enabled) /\ mode = "webrtc" /\ PlaybackEnabled

\* When the activity is over for good, or the window is left, the live view
\* ends and its connections are given back, whichever player is late with a
\* picture or an error and however often it is mounted anew.
QuietViewsEnd == <>[]~Active => <>[](~liveReady /\ ~HasSocket /\ ~rtc.pc)

\* The camera is active and watched, and its stream and modes left alone.
Watched == /\ <>[](Active /\ visible /\ Plays(streaming, enabled))
           /\ <>[][~(StreamChanges \/ StreamTypeChanges \/ ModesAnew)]_vars

\* A picture is shown, and if it stops a timer will notice.
Guarded == /\ liveReady
           /\ \/ mode = "jsmpeg"
              \/ rtc.pc /\ rtc.stallTimer # "off"
              \/ mse.ws # "none" /\ mse.stallTimer # "off"

\* A player that no timer will lower any more:
\* - the mode below WebRTC is MSE, also in a browser that has none;
\* - an MSE player without a socket: refused, lost before the first progress,
\*   or given up after a media error;
\* - an MSE player whose codecs are answered and which has had no progress
\*   since: the timeout of the answer is off and the stall timer not yet on;
\* - a WebRTC player that has not loaded after its second connection, or has
\*   loaded and had no progress: its load timer is set once, when it is mounted;
\* - jsmpeg, the last mode, which has no timer.
Lost == \/ mode = "mse" /\ "mse" \notin browser
        \/ /\ MseMounted /\ ~HasSocket /\ mse.stallTimer = "off"
           /\ mse.source # "opening" /\ mse.step # "asked"
        \/ mse.ws = "open" /\ mse.step = "answered" /\ mse.stallTimer = "off"
        \/ rtc.pc /\ ~rtc.loadTimer /\ rtc.stallTimer = "off"
        \/ mode = "jsmpeg" /\ ~liveReady

\* Every wait of a player that is watched is ended by the event or by a timer,
\* and no error sends it in circles: in the end a picture is shown that a
\* timer guards, if need be in a lower mode, or the player is in one of the
\* places where the code sets no timer.
LiveUnlessLost == Watched => <>[]Guarded \/ <>[]Lost

\* docs/docs/configuration/live.md: errors in stream playback, "connection
\* failures, codec issues, or buffering timeouts", cause the fallback to the low
\* bandwidth mode: a watched player is not left with a connection that failed.
ConnectionFailuresFallBack == Watched => ~<>[](mse.ws = "dead")
=============================================================================
