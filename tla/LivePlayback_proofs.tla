-------------------------- MODULE LivePlayback_proofs --------------------------
(***************************************************************************)
(* Proofs about LivePlayback, for every browser and any number of media    *)
(* errors.  The invariants are proved together: a connection is known to   *)
(* belong to the player on the screen only because the players that are    *)
(* not mounted hold none.                                                  *)
(***************************************************************************)
EXTENDS LivePlayback, TLAPS

(* NoIdleConnections and the fact that the player with a socket is there.  *)
SocketIsWanted ==
  HasSocket => MseMounted /\ PlaybackEnabled /\ (visible \/ streaming = "continuous")
PeerIsWanted == rtc.pc => RtcMounted /\ PlaybackEnabled

Inv == TypeOK /\ SocketIsWanted /\ PeerIsWanted

LEMMA Booleans ==
  ASSUME NEW type \in Types, NEW mot \in BOOLEAN, NEW vis \in BOOLEAN,
         NEW en \in BOOLEAN, NEW ready \in BOOLEAN
  PROVE  /\ CameraActive(type, mot, vis) \in BOOLEAN
         /\ Plays(type, en) \in BOOLEAN
         /\ IdleTimerRuns(ready, type, mot, vis) \in BOOLEAN
  BY DEF CameraActive, Plays, IdleTimerRuns, Types

(* What the players' operators give back. *)
LEMMA FreshPlayers ==
  ASSUME NEW m \in Modes, NEW plays \in BOOLEAN, NEW on \in BOOLEAN
  PROVE  /\ MountMse(m, plays, on) \in MseStates
         /\ MountRtc(m, plays, on) \in RtcStates
         /\ MountMse(m, plays, on).ws \in {"connecting", "open"}
              => plays /\ m = "mse" /\ "mse" \in browser /\ on
         /\ MountRtc(m, plays, on).pc => plays /\ m = "webrtc" /\ on
<1>1. 0 \in 0..MaxErrors
  BY LiveAssumption
<1>2. NoMse \in MseStates /\ NoMse.ws = "none"
  BY <1>1 DEF NoMse, MseStates, StallTimers
<1>3. Connect(NoMse) \in MseStates
  BY <1>1 DEF NoMse, MseStates, StallTimers, Connect
<1>4. NoRtc \in RtcStates /\ NoRtc.pc = FALSE
  BY DEF NoRtc, RtcStates, StallTimers
<1>5. [NoRtc EXCEPT !.pc = on, !.loadTimer = TRUE] \in RtcStates
  BY DEF NoRtc, RtcStates, StallTimers
<1>6. [NoRtc EXCEPT !.pc = on, !.loadTimer = TRUE].pc = on
  BY DEF NoRtc
<1> QED
  BY <1>2, <1>3, <1>4, <1>5, <1>6 DEF MountMse, MountRtc

LEMMA PlayersThatStay ==
  ASSUME NEW p \in MseStates, NEW r \in RtcStates, NEW on \in BOOLEAN,
         NEW fresh \in BOOLEAN
  PROVE  /\ Connect(p) \in MseStates
         /\ Disconnect(p, fresh) \in MseStates /\ Disconnect(p, fresh).ws = "none"
         /\ MsePlayback(p, on) \in MseStates
         /\ ~on => MsePlayback(p, on).ws = "none"
         /\ RtcPlayback(r, on) \in RtcStates /\ RtcPlayback(r, on).pc = on
<1>1. /\ Unfed(p.stallTimer) \in StallTimers
      /\ Unfed(r.stallTimer) \in StallTimers
  BY DEF Unfed, StallTimers
<1>2. Connect(p) \in MseStates
  BY DEF Connect, MseStates
<1>3. Disconnect(p, fresh) \in MseStates /\ Disconnect(p, fresh).ws = "none"
  BY <1>1 DEF Disconnect, MseStates, StallTimers
<1>4. Disconnect(p, FALSE) \in MseStates /\ Disconnect(p, FALSE).ws = "none"
  BY <1>1 DEF Disconnect, MseStates, StallTimers
<1>5. RtcPlayback(r, on) \in RtcStates /\ RtcPlayback(r, on).pc = on
  BY <1>1 DEF RtcPlayback, RtcStates
<1> QED
  BY <1>2, <1>3, <1>4, <1>5 DEF MsePlayback

(* A player mounted anew is wanted: a step that ends in Remount leads back *)
(* to the invariant, whatever has changed before.                          *)
LEMMA RemountInv ==
  TypeOK => \A m \in Modes, type \in Types, en, mot, vis \in BOOLEAN :
    /\ Remount(m, Plays(type, en), CameraActive(type, mot, vis))
    /\ browser' = browser /\ restreamed' \in BOOLEAN
    /\ streaming' = type /\ enabled' = en /\ motion' = mot /\ visible' = vis
    => Inv'
<1> SUFFICES ASSUME TypeOK,
                    NEW m \in Modes, NEW type \in Types,
                    NEW en \in BOOLEAN, NEW mot \in BOOLEAN, NEW vis \in BOOLEAN,
                    Remount(m, Plays(type, en), CameraActive(type, mot, vis)),
                    browser' = browser, restreamed' \in BOOLEAN,
                    streaming' = type, enabled' = en, motion' = mot, visible' = vis
             PROVE  Inv'
  OBVIOUS
<1> DEFINE plays == Plays(type, en)
           on == CameraActive(type, mot, vis)
<1>1. plays \in BOOLEAN /\ on \in BOOLEAN
  BY Booleans
<1>2. /\ MountMse(m, plays, on) \in MseStates
      /\ MountRtc(m, plays, on) \in RtcStates
      /\ MountMse(m, plays, on).ws \in {"connecting", "open"}
           => plays /\ m = "mse" /\ "mse" \in browser /\ on
      /\ MountRtc(m, plays, on).pc => plays /\ m = "webrtc" /\ on
  BY <1>1, FreshPlayers
<1>3. /\ mode' = m /\ liveReady' = FALSE /\ idleTimer' = FALSE
      /\ mse' = MountMse(m, plays, on)
      /\ rtc' = MountRtc(m, plays, on)
  BY DEF Remount
<1>4. TypeOK'
  BY <1>2, <1>3 DEF TypeOK
<1>5. Active' = on /\ (on => vis \/ type = "continuous")
  BY DEF Active, CameraActive
<1>6. Plays(streaming, enabled)' = plays
  BY DEF Plays
<1>7. SocketIsWanted'
  BY <1>2, <1>3, <1>5, <1>6
  DEF SocketIsWanted, HasSocket, MseMounted, PlaybackEnabled
<1>8. PeerIsWanted'
  BY <1>2, <1>3, <1>5, <1>6 DEF PeerIsWanted, RtcMounted, PlaybackEnabled
<1> QED
  BY <1>4, <1>7, <1>8 DEF Inv

(* Everything but MSE's socket and the peer connection stays, so what they *)
(* were wanted for is still there.                                         *)
LEMMA MseChangesInv ==
  ASSUME Inv, NEW p \in MseStates, MseChanges(p),
         p.ws \in {"connecting", "open"} => HasSocket
  PROVE  Inv'
<1>1. /\ mse' = p
      /\ UNCHANGED <<mode, liveReady, idleTimer, rtc, browser, streaming, restreamed,
                     motion, visible, enabled>>
  BY DEF MseChanges, Environment, Settings
<1>2. TypeOK'
  BY <1>1 DEF Inv, TypeOK
<1>3. SocketIsWanted'
  BY <1>1 DEF Inv, SocketIsWanted, HasSocket, MseMounted, Plays, PlaybackEnabled,
              Active, CameraActive
<1>4. PeerIsWanted'
  BY <1>1 DEF Inv, PeerIsWanted, RtcMounted, Plays, PlaybackEnabled, Active,
              CameraActive
<1> QED
  BY <1>2, <1>3, <1>4 DEF Inv

LEMMA ErrorReportedInv == ASSUME Inv, ErrorReported PROVE Inv'
<1>1. Lower(mode) \in Modes
  BY DEF Lower, Modes
<1>2. /\ Remount(Lower(mode), Plays(streaming, enabled),
                 CameraActive(streaming, motion, visible))
      /\ UNCHANGED <<browser, streaming, restreamed, motion, visible, enabled>>
  BY DEF ErrorReported, Environment, Settings, Active
<1> QED
  BY <1>1, <1>2, RemountInv DEF Inv, TypeOK

LEMMA DefaultModes == \A r \in BOOLEAN : BestMode(r) \in Modes
  BY DEF BestMode, Modes

(* Playback is switched on or off, or stays: what is connected afterwards  *)
(* is wanted, because the players follow what playback has become.         *)
LEMMA PlaybackInv ==
  ASSUME Inv, NEW on \in BOOLEAN, on = PlaybackEnabled',
         IF on = PlaybackEnabled THEN UNCHANGED <<mse, rtc>> ELSE PlaybackBecomes(on),
         MseMounted' = MseMounted, RtcMounted' = RtcMounted,
         visible' = visible,
         streaming = "continuous" /\ streaming' # "continuous" => visible,
         Active' => visible' \/ streaming' = "continuous",
         PlaybackEnabled' /\ ~PlaybackEnabled => Active'
  PROVE  /\ mse' \in MseStates /\ rtc' \in RtcStates
         /\ SocketIsWanted' /\ PeerIsWanted'
<1>1. /\ MsePlayback(mse, on) \in MseStates
      /\ ~on => MsePlayback(mse, on).ws = "none"
      /\ RtcPlayback(rtc, on) \in RtcStates /\ RtcPlayback(rtc, on).pc = on
  BY PlayersThatStay DEF Inv, TypeOK
<1>2. CASE on = PlaybackEnabled
  BY <1>2 DEF Inv, TypeOK, SocketIsWanted, HasSocket, PeerIsWanted
<1>3. CASE on # PlaybackEnabled
  <2>1. /\ mse' = IF MseMounted THEN MsePlayback(mse, on) ELSE mse
        /\ rtc' = IF RtcMounted THEN RtcPlayback(rtc, on) ELSE rtc
    BY <1>3 DEF PlaybackBecomes
  <2>2. mse' \in MseStates /\ rtc' \in RtcStates
    BY <1>1, <2>1 DEF Inv, TypeOK
  <2>3. HasSocket' => MseMounted /\ on
    BY <1>1, <2>1 DEF Inv, SocketIsWanted, HasSocket
  <2>4. on => visible' \/ streaming' = "continuous"
    BY <1>3 DEF PlaybackEnabled
  <2>5. SocketIsWanted'
    BY <2>3, <2>4 DEF SocketIsWanted
  <2>6. PeerIsWanted'
    BY <1>1, <2>1 DEF Inv, PeerIsWanted
  <2> QED
    BY <2>2, <2>5, <2>6
<1> QED
  BY <1>2, <1>3

(* The activity changes. *)
LEMMA MotionInv == ASSUME Inv, Motion PROVE Inv'
<1> DEFINE on == CameraActive(streaming, ~motion, visible) \/ liveReady
<1>1. /\ motion' = ~motion
      /\ UNCHANGED <<browser, streaming, restreamed, mode, liveReady, visible, enabled>>
      /\ idleTimer' = IdleTimerRuns(liveReady, streaming, ~motion, visible)
  BY DEF Motion, Settings
<1>2. on \in BOOLEAN /\ on = PlaybackEnabled' /\ idleTimer' \in BOOLEAN
  BY <1>1, Booleans DEF PlaybackEnabled, Active, CameraActive, Inv, TypeOK
<1>3. IF on = PlaybackEnabled THEN UNCHANGED <<mse, rtc>> ELSE PlaybackBecomes(on)
  BY DEF Motion
<1>4. MseMounted' = MseMounted /\ RtcMounted' = RtcMounted
  BY <1>1 DEF MseMounted, RtcMounted, Plays
<1>5. /\ Active' => visible' \/ streaming' = "continuous"
      /\ PlaybackEnabled' /\ ~PlaybackEnabled => Active'
  BY <1>1 DEF Active, CameraActive, PlaybackEnabled
<1>6. /\ mse' \in MseStates /\ rtc' \in RtcStates
      /\ SocketIsWanted' /\ PeerIsWanted'
  <2> HIDE DEF on
  <2> QED
    BY <1>1, <1>2, <1>3, <1>4, <1>5, PlaybackInv
<1>7. TypeOK'
  BY <1>1, <1>2, <1>6 DEF Inv, TypeOK
<1> QED
  BY <1>6, <1>7 DEF Inv

(* The viewer has the camera streamed otherwise. *)
LEMMA StreamTypeInv == ASSUME Inv, StreamTypeChanges PROVE Inv'
<1>1. PICK type \in Types \ {streaming} :
        /\ streaming' = type
        /\ LET active == CameraActive(type, motion, visible)
               on == active \/ liveReady
           IN IF mode # DefaultMode \/ "none" \in {streaming, type}
              THEN Remount(DefaultMode, Plays(type, enabled), active)
              ELSE /\ IF on = PlaybackEnabled THEN UNCHANGED <<mse, rtc>>
                      ELSE PlaybackBecomes(on)
                   /\ idleTimer' = IdleTimerRuns(liveReady, type, motion, visible)
                   /\ UNCHANGED <<mode, liveReady>>
  BY DEF StreamTypeChanges
<1>2. visible /\ UNCHANGED <<browser, restreamed, motion, visible, enabled>>
  BY DEF StreamTypeChanges
<1>3. type \in Types
  BY <1>1
<1>4. CASE mode # DefaultMode \/ "none" \in {streaming, type}
  <2>1. Remount(DefaultMode, Plays(type, enabled), CameraActive(type, motion, visible))
    BY <1>1, <1>4
  <2>2. DefaultMode \in Modes
    BY DefaultModes DEF DefaultMode, Inv, TypeOK
  <2> QED
    BY <1>1, <1>2, <1>3, <2>1, <2>2, RemountInv DEF Inv, TypeOK
<1>5. CASE ~(mode # DefaultMode \/ "none" \in {streaming, type})
  <2> DEFINE on == CameraActive(type, motion, visible) \/ liveReady
  <2>1. /\ IF on = PlaybackEnabled THEN UNCHANGED <<mse, rtc>> ELSE PlaybackBecomes(on)
        /\ idleTimer' = IdleTimerRuns(liveReady, type, motion, visible)
        /\ UNCHANGED <<mode, liveReady>>
    BY <1>1, <1>5
  <2>2. on \in BOOLEAN /\ on = PlaybackEnabled' /\ idleTimer' \in BOOLEAN
    BY <1>1, <1>2, <1>3, <2>1, Booleans
    DEF PlaybackEnabled, Active, CameraActive, Inv, TypeOK
  <2>3. MseMounted' = MseMounted /\ RtcMounted' = RtcMounted
    BY <1>1, <1>2, <1>5, <2>1 DEF MseMounted, RtcMounted, Plays
  <2>4. /\ Active' => visible' \/ streaming' = "continuous"
        /\ PlaybackEnabled' /\ ~PlaybackEnabled => Active'
    BY <1>1, <1>2, <2>1 DEF Active, CameraActive, PlaybackEnabled
  <2>5. /\ mse' \in MseStates /\ rtc' \in RtcStates
        /\ SocketIsWanted' /\ PeerIsWanted'
    <3> HIDE DEF on
    <3> QED
      BY <1>1, <1>2, <2>1, <2>2, <2>3, <2>4, PlaybackInv
  <2>6. TypeOK'
    BY <1>1, <1>2, <1>3, <2>1, <2>2, <2>5 DEF Inv, TypeOK
  <2> QED
    BY <2>5, <2>6 DEF Inv
<1> QED
  BY <1>4, <1>5

(* A hidden window keeps no MSE socket that activity wanted, and one that  *)
(* comes back connects only what is shown or active.                       *)
LEMMA VisibilityInv == ASSUME Inv, Visibility PROVE Inv'
<1> DEFINE active == CameraActive(streaming, motion, ~visible)
           on == active \/ liveReady
           heard == IF visible THEN Disconnect(mse, TRUE)
                    ELSE IF PlaybackEnabled THEN Connect(mse) ELSE mse
           later == IF on = PlaybackEnabled THEN heard ELSE MsePlayback(heard, on)
<1>1. /\ visible' = ~visible
      /\ UNCHANGED <<browser, streaming, restreamed, motion, enabled>>
  BY DEF Visibility, Settings
<1>2. CASE mode # DefaultMode
  <2>1. Remount(DefaultMode, Plays(streaming, enabled), active)
    BY <1>2 DEF Visibility
  <2>2. DefaultMode \in Modes /\ (~visible) \in BOOLEAN
    BY DefaultModes DEF DefaultMode, Inv, TypeOK
  <2> QED
    BY <1>1, <2>1, <2>2, RemountInv DEF Inv, TypeOK
<1>3. CASE mode = DefaultMode
  <2>1. /\ mse' = IF MseMounted THEN later ELSE mse
        /\ rtc' = IF RtcMounted THEN RtcPlayback(rtc, on) ELSE rtc
        /\ idleTimer' = IdleTimerRuns(liveReady, streaming, motion, ~visible)
        /\ UNCHANGED <<mode, liveReady>>
    BY <1>3 DEF Visibility
  <2>2. on \in BOOLEAN /\ on = PlaybackEnabled' /\ idleTimer' \in BOOLEAN
    <3>1. (~visible) \in BOOLEAN
      OBVIOUS
    <3> QED
      BY <1>1, <2>1, <3>1, Booleans DEF PlaybackEnabled, Active, Inv, TypeOK
  <2>3. heard \in MseStates /\ (visible => heard.ws = "none")
    BY PlayersThatStay DEF Inv, TypeOK
  <2>4. /\ MsePlayback(heard, on) \in MseStates
        /\ ~on => MsePlayback(heard, on).ws = "none"
        /\ RtcPlayback(rtc, on) \in RtcStates /\ RtcPlayback(rtc, on).pc = on
    BY <2>2, <2>3, PlayersThatStay DEF Inv, TypeOK
  <2>5. ASSUME MseMounted, mse'.ws \in {"connecting", "open"}
        PROVE  on /\ (visible' \/ streaming' = "continuous")
    <3>1. CASE on = PlaybackEnabled
      <4>1. mse' = heard
        BY <2>1, <2>5, <3>1
      <4>2. ~visible
        BY <4>1, <2>3, <2>5
      <4>3. PlaybackEnabled
        BY <4>1, <4>2, <2>5 DEF Inv, SocketIsWanted, HasSocket
      <4> QED
        BY <1>1, <3>1, <4>2, <4>3
    <3>2. CASE on # PlaybackEnabled
      <4>1. mse' = MsePlayback(heard, on)
        BY <2>1, <2>5, <3>2
      <4>2. on
        BY <4>1, <2>4, <2>5
      <4>3. active
        BY <3>2, <4>2 DEF PlaybackEnabled
      <4> QED
        BY <1>1, <4>2, <4>3 DEF CameraActive
    <3> QED
      BY <3>1, <3>2
  <2>6. mse' \in MseStates /\ rtc' \in RtcStates
    BY <2>1, <2>3, <2>4 DEF Inv, TypeOK
  <2>7. TypeOK'
    BY <1>1, <2>1, <2>2, <2>6 DEF Inv, TypeOK
  <2>8. MseMounted' = MseMounted /\ RtcMounted' = RtcMounted
    BY <1>1, <2>1 DEF MseMounted, RtcMounted, Plays
  <2>9. SocketIsWanted'
    <3>1. ASSUME ~MseMounted PROVE ~HasSocket'
      BY <2>1, <3>1 DEF Inv, SocketIsWanted, HasSocket
    <3> QED
      BY <2>2, <2>5, <2>8, <3>1 DEF SocketIsWanted, HasSocket
  <2>10. PeerIsWanted'
    BY <2>1, <2>2, <2>4, <2>8 DEF Inv, PeerIsWanted
  <2> QED
    BY <2>7, <2>9, <2>10 DEF Inv
<1> QED
  BY <1>2, <1>3

(* The steps of the page: each mounts the players anew or, for the idle    *)
(* timer, stops them.                                                      *)
LEMMA PageInv ==
  ASSUME Inv, CameraEnabled \/ StreamChanges \/ ModesAnew \/ IdleTimerFires
  PROVE  Inv'
<1>1. DefaultMode \in Modes
  BY DefaultModes DEF DefaultMode, Inv, TypeOK
<1>2. CASE CameraEnabled
  <2>1. (~enabled) \in BOOLEAN /\ mode \in Modes
    BY DEF Inv, TypeOK
  <2> QED
    BY <1>2, <2>1, RemountInv DEF CameraEnabled, Settings, Active, Inv, TypeOK
<1>3. CASE StreamChanges
  <2>1. PICK r \in BOOLEAN :
          /\ restreamed' = r
          /\ Remount(BestMode(r), Plays(streaming, enabled), Active)
          /\ UNCHANGED <<browser, streaming, motion, visible, enabled>>
    BY <1>3 DEF StreamChanges
  <2>2. BestMode(r) \in Modes
    BY DefaultModes
  <2> QED
    BY <2>1, <2>2, RemountInv DEF Active, Inv, TypeOK
<1>4. CASE ModesAnew
  BY <1>1, <1>4, RemountInv DEF ModesAnew, Environment, Settings, Active, Inv, TypeOK
<1>5. CASE IdleTimerFires
  <2>1. UNCHANGED <<browser, streaming, restreamed, motion, visible, enabled>>
    BY <1>5 DEF IdleTimerFires, Environment, Settings
  <2>2. CASE mode # DefaultMode
    BY <1>1, <1>5, <2>1, <2>2, RemountInv DEF IdleTimerFires, Active, Inv, TypeOK
  <2>3. CASE mode = DefaultMode
    <3>1. /\ liveReady' = FALSE /\ idleTimer' = FALSE /\ mode' = mode
          /\ mse' = IF MseMounted THEN MsePlayback(mse, FALSE) ELSE mse
          /\ rtc' = IF RtcMounted THEN RtcPlayback(rtc, FALSE) ELSE rtc
      BY <1>5, <2>3 DEF IdleTimerFires, PlaybackBecomes
    <3>2. /\ MsePlayback(mse, FALSE) \in MseStates
          /\ MsePlayback(mse, FALSE).ws = "none"
          /\ RtcPlayback(rtc, FALSE) \in RtcStates
          /\ RtcPlayback(rtc, FALSE).pc = FALSE
      BY PlayersThatStay DEF Inv, TypeOK
    <3>3. ~HasSocket' /\ ~rtc'.pc
      BY <3>1, <3>2 DEF Inv, SocketIsWanted, HasSocket, PeerIsWanted
    <3> QED
      BY <2>1, <3>1, <3>2, <3>3 DEF Inv, TypeOK, SocketIsWanted, PeerIsWanted
  <2> QED
    BY <2>2, <2>3
<1> QED
  BY <1>2, <1>3, <1>4, <1>5

(* A picture is shown: whoever shows it keeps its connection. *)
LEMMA ShownInv ==
  ASSUME Inv, Shown, mse' \in MseStates, rtc' \in RtcStates,
         HasSocket' => HasSocket, rtc'.pc => rtc.pc,
         UNCHANGED <<mode, browser, streaming, restreamed, motion, visible, enabled>>
  PROVE  Inv'
<1>1. /\ liveReady' = TRUE
      /\ idleTimer' = IdleTimerRuns(TRUE, streaming, motion, visible)
  BY DEF Shown
<1>2. IdleTimerRuns(TRUE, streaming, motion, visible) \in BOOLEAN
  BY Booleans DEF Inv, TypeOK
<1>3. TypeOK'
  BY <1>1, <1>2 DEF Inv, TypeOK
<1>4. PlaybackEnabled'
  BY <1>1 DEF PlaybackEnabled
<1>5. MseMounted' = MseMounted /\ RtcMounted' = RtcMounted
  BY DEF MseMounted, RtcMounted, Plays
<1>6. SocketIsWanted'
  BY <1>4, <1>5 DEF Inv, SocketIsWanted
<1>7. PeerIsWanted'
  BY <1>4, <1>5 DEF Inv, PeerIsWanted
<1> QED
  BY <1>3, <1>6, <1>7 DEF Inv

(* A change of the peer's timers touches nothing else. *)
LEMMA RtcChangesInv ==
  ASSUME Inv, NEW p \in RtcStates, p.pc = rtc.pc, RtcChanges(p)
  PROVE  Inv'
  BY DEF RtcChanges, Environment, Settings, Inv, TypeOK, SocketIsWanted, HasSocket,
         MseMounted, RtcMounted, Plays, PeerIsWanted, PlaybackEnabled, Active,
         CameraActive

LEMMA RtcInv ==
  ASSUME Inv, \/ JsmpegPlays \/ RtcLoads \/ RtcProgress \/ RtcStalls
              \/ RtcLoadTimeout \/ RtcStallTimeout \/ RtcNetworkError
  PROVE  Inv'
<1>1. CASE JsmpegPlays
  BY <1>1, ShownInv DEF JsmpegPlays, Environment, Settings, HasSocket, Inv, TypeOK
<1>2. CASE RtcLoads
  <2>1. rtc' \in RtcStates /\ rtc'.pc = rtc.pc
    BY <1>2 DEF RtcLoads, RtcStates, Inv, TypeOK
  <2> QED
    BY <1>2, <2>1, ShownInv DEF RtcLoads, Environment, Settings, HasSocket, Inv, TypeOK
<1>3. ASSUME NEW timer \in StallTimers
      PROVE  /\ [rtc EXCEPT !.stallTimer = timer] \in RtcStates
             /\ [rtc EXCEPT !.stallTimer = timer].pc = rtc.pc
  BY DEF Inv, TypeOK, RtcStates
<1>4. {"off", "running", "late"} \subseteq StallTimers
  BY DEF StallTimers
<1>5. CASE RtcProgress
  BY <1>3, <1>4, <1>5, RtcChangesInv DEF RtcProgress
<1>6. CASE RtcStalls
  BY <1>3, <1>4, <1>6, RtcChangesInv DEF RtcStalls
<1>7. CASE RtcLoadTimeout \/ RtcNetworkError
  BY <1>7, ErrorReportedInv DEF RtcLoadTimeout, RtcNetworkError
<1>8. CASE RtcStallTimeout
  <2>1. CASE visible /\ rtc.pc
    BY <1>8, <2>1, ErrorReportedInv DEF RtcStallTimeout
  <2>2. CASE ~(visible /\ rtc.pc)
    BY <1>3, <1>4, <1>8, <2>2, RtcChangesInv DEF RtcStallTimeout
  <2> QED
    BY <2>1, <2>2
<1> QED
  BY <1>1, <1>2, <1>5, <1>6, <1>7, <1>8

(* The steps of a socket and of the media source, and what they report.    *)
LEMMA MseInv ==
  ASSUME Inv, \/ SocketOpens \/ SocketIsRefused \/ SocketCloses \/ SourceOpens
              \/ MseAnswer \/ MseTimeout \/ PlayBegins \/ MediaArrives
              \/ MediaStalls \/ BufferTooLong \/ BufferTimeout
              \/ MediaNetworkError \/ MediaError
  PROVE  Inv'
<1>1. mse \in MseStates
  BY DEF Inv, TypeOK
<1>2. CASE SocketOpens
  <2>1. [mse EXCEPT !.ws = "open", !.source = "opening"] \in MseStates
    BY <1>1 DEF MseStates
  <2> QED
    BY <1>2, <2>1, MseChangesInv DEF SocketOpens, HasSocket
<1>3. CASE SocketIsRefused \/ SocketCloses
  <2>1. Unfed(mse.stallTimer) \in StallTimers
    BY DEF Unfed, StallTimers
  <2>2. /\ [mse EXCEPT !.ws = "dead"] \in MseStates
        /\ [mse EXCEPT !.ws = "dead"].ws = "dead"
        /\ [mse EXCEPT !.ws = "dead", !.stallTimer = Unfed(@)] \in MseStates
        /\ [mse EXCEPT !.ws = "dead", !.stallTimer = Unfed(@)].ws = "dead"
    BY <1>1, <2>1 DEF MseStates
  <2> QED
    BY <1>3, <2>2, MseChangesInv DEF SocketIsRefused, SocketCloses
<1>4. CASE SourceOpens
  <2> DEFINE opened == [mse EXCEPT !.source = "open"]
  <2>1. opened \in MseStates /\ opened.ws = mse.ws
    BY <1>1 DEF MseStates
  <2>2. \/ ErrorReported \/ MseChanges(opened)
        \/ mse.ws = "open" /\ MseChanges([opened EXCEPT !.step = "asked"])
    BY <1>4 DEF SourceOpens
  <2> HIDE DEF opened
  <2>3. CASE mse.ws = "open" /\ MseChanges([opened EXCEPT !.step = "asked"])
    <3>1. [opened EXCEPT !.step = "asked"] \in MseStates
      BY <2>1 DEF MseStates
    <3> QED
      BY <2>3, <3>1, MseChangesInv DEF HasSocket
  <2>4. CASE MseChanges(opened)
    BY <2>1, <2>4, MseChangesInv DEF HasSocket
  <2> QED
    BY <2>2, <2>3, <2>4, ErrorReportedInv
<1>5. CASE MseAnswer
  <2>1. [mse EXCEPT !.step = "answered"] \in MseStates
    BY <1>1 DEF MseStates
  <2>2. CASE MseChanges([mse EXCEPT !.step = "answered"])
    BY <1>5, <2>1, <2>2, MseChangesInv DEF MseAnswer, HasSocket
  <2> QED
    BY <1>5, <2>2, ErrorReportedInv DEF MseAnswer
<1>6. CASE MseTimeout \/ BufferTooLong \/ MediaNetworkError
  BY <1>6, ErrorReportedInv DEF MseTimeout, BufferTooLong, MediaNetworkError
<1>7. CASE PlayBegins \/ MediaArrives
  <2>1. mse' \in MseStates /\ mse'.ws = mse.ws
    BY <1>1, <1>7 DEF PlayBegins, MediaArrives, MseStates, StallTimers
  <2> QED
    BY <1>7, <2>1, ShownInv
    DEF PlayBegins, MediaArrives, Environment, Settings, HasSocket, Inv, TypeOK
<1>8. ASSUME NEW timer \in StallTimers
      PROVE  /\ [mse EXCEPT !.stallTimer = timer] \in MseStates
             /\ [mse EXCEPT !.stallTimer = timer].ws = mse.ws
  BY <1>1 DEF MseStates
<1>9. {"off", "running", "late"} \subseteq StallTimers
  BY DEF StallTimers
<1>10. CASE MediaStalls
  BY <1>8, <1>9, <1>10, MseChangesInv DEF MediaStalls, HasSocket
<1>11. CASE BufferTimeout
  <2>1. CASE visible /\ mse.ws # "none"
    BY <1>11, <2>1, ErrorReportedInv DEF BufferTimeout
  <2>2. CASE ~(visible /\ mse.ws # "none")
    BY <1>8, <1>9, <1>11, <2>2, MseChangesInv DEF BufferTimeout, HasSocket
  <2> QED
    BY <2>1, <2>2
<1>12. CASE MediaError
  <2> DEFINE count == IF mse.errors < MaxErrors THEN mse.errors + 1 ELSE MaxErrors
             off == Disconnect(mse, TRUE)
  <2>1. count \in 0..MaxErrors
    BY <1>1, LiveAssumption DEF MseStates
  <2>2. off \in MseStates /\ off.ws = "none"
    BY <1>1, PlayersThatStay DEF Inv, TypeOK
  <2>3. \/ ErrorReported
        \/ MseChanges([off EXCEPT !.errors = count])
        \/ mse.ws = "none" /\ MseChanges([mse EXCEPT !.errors = count])
    BY <1>12 DEF MediaError
  <2> HIDE DEF count, off
  <2>4. CASE MseChanges([off EXCEPT !.errors = count])
    <3>1. /\ [off EXCEPT !.errors = count] \in MseStates
          /\ [off EXCEPT !.errors = count].ws = "none"
      BY <2>1, <2>2 DEF MseStates
    <3> QED
      BY <2>4, <3>1, MseChangesInv
  <2>5. CASE mse.ws = "none" /\ MseChanges([mse EXCEPT !.errors = count])
    <3>1. /\ [mse EXCEPT !.errors = count] \in MseStates
          /\ [mse EXCEPT !.errors = count].ws = mse.ws
      BY <1>1, <2>1 DEF MseStates
    <3> QED
      BY <2>5, <3>1, MseChangesInv
  <2> QED
    BY <2>3, <2>4, <2>5, ErrorReportedInv
<1> QED
  BY <1>2, <1>3, <1>4, <1>5, <1>6, <1>7, <1>10, <1>11, <1>12

LEMMA InitInv == Init => Inv
<1> SUFFICES ASSUME Init PROVE Inv
  OBVIOUS
<1>1. mode \in Modes /\ Plays(streaming, TRUE) \in BOOLEAN /\ Active \in BOOLEAN
  BY DefaultModes, Booleans DEF Init, DefaultMode, Active
<1>2. /\ mse \in MseStates /\ rtc \in RtcStates
      /\ HasSocket => /\ mode = "mse" /\ "mse" \in browser
                      /\ Plays(streaming, TRUE) /\ Active
      /\ rtc.pc => mode = "webrtc" /\ Plays(streaming, TRUE) /\ Active
  BY <1>1, FreshPlayers DEF Init, HasSocket
<1>3. enabled = TRUE /\ visible = TRUE
  BY DEF Init
<1>4. TypeOK
  BY <1>1, <1>2 DEF Init, TypeOK
<1> QED
  BY <1>2, <1>3, <1>4
  DEF Inv, SocketIsWanted, MseMounted, RtcMounted, PeerIsWanted, PlaybackEnabled

LEMMA NextInv == Inv /\ [Next]_vars => Inv'
<1> SUFFICES ASSUME Inv, [Next]_vars PROVE Inv'
  OBVIOUS
<1>1. CASE Motion
  BY <1>1, MotionInv
<1>2. CASE Visibility
  BY <1>2, VisibilityInv
<1>3. CASE CameraEnabled \/ StreamChanges \/ ModesAnew \/ IdleTimerFires
  BY <1>3, PageInv
<1>4. CASE StreamTypeChanges
  BY <1>4, StreamTypeInv
<1>5. CASE \/ JsmpegPlays \/ RtcLoads \/ RtcProgress \/ RtcStalls
           \/ RtcLoadTimeout \/ RtcStallTimeout \/ RtcNetworkError
  BY <1>5, RtcInv
<1>6. CASE \/ SocketOpens \/ SocketIsRefused \/ SocketCloses \/ SourceOpens
           \/ MseAnswer \/ MseTimeout \/ PlayBegins \/ MediaArrives
           \/ MediaStalls \/ BufferTooLong \/ BufferTimeout
           \/ MediaNetworkError \/ MediaError
  BY <1>6, MseInv
<1>7. CASE UNCHANGED vars
  BY <1>7
  DEF vars, Inv, TypeOK, SocketIsWanted, HasSocket, MseMounted, RtcMounted, Plays,
      PeerIsWanted, PlaybackEnabled, Active, CameraActive
<1> QED
  BY <1>1, <1>2, <1>3, <1>4, <1>5, <1>6, <1>7 DEF Next, Player, Timers

LEMMA SpecInv == Spec => []Inv
  BY InitInv, NextInv, PTL DEF Spec

(* The state of the hook, the player and the connections keeps its shape;  *)
(* an MSE player never counts more than MaxErrors errors.                  *)
THEOREM Shapes == Spec => []TypeOK
<1>1. Inv => TypeOK
  BY DEF Inv
<1> QED
  BY <1>1, SpecInv, PTL

(* Connections to go2rtc are only held by the player on the screen, for a  *)
(* camera that is active or shown; MSE sockets in a hidden window only for *)
(* a continuous stream.                                                    *)
THEOREM Idle == Spec => []NoIdleConnections
<1>1. Inv => NoIdleConnections
  BY DEF Inv, SocketIsWanted, PeerIsWanted, NoIdleConnections, MseMounted, RtcMounted
<1> QED
  BY <1>1, SpecInv, PTL
=============================================================================
