---------------------------- MODULE AutoQuality ----------------------------
(***************************************************************************)
(* Playback of recordings with the "auto" quality: the policy object of    *)
(* AutoQualityGovernor.ts, the player that owns it                         *)
(* (DynamicVideoPlayer.tsx) and the signals of the video element and of    *)
(* hls.js that drive it (HlsVideoPlayer.tsx).                              *)
(*                                                                         *)
(* React applies a state update in a later render: autoLow is the state,   *)
(* rendered the value of the last render (autoLowQualityRef), wanted the   *)
(* source that the last render asked for and source the one the hls.js     *)
(* instance plays.  Commit is one more render.  Time is a count of ticks   *)
(* and no tick passes while a render or a timer is due.                    *)
(***************************************************************************)
EXTENDS Integers, FiniteSets

CONSTANTS
    Cameras, Chunks,        \* cameras, and the hours a day is played in
    HasMain, HasSub,        \* <<camera, chunk>> with recordings of a stream
    Codec, LowCodec,        \* of a camera's streams, in this browser
    Bitrate,                \* of a camera's original stream; 0 is unknown
    Rates, SlowStart,       \* throughput measured, KNOWN_SLOW_START_FLOOR_BPS
    Stored,                 \* estimates a device may have stored; 0 is none
    HastyMoves,             \* the viewer may act before the coverage of the
                            \* last move is known and rendered
    SeekGrace,              \* SEEK_GRACE_MS
    SingleStall,            \* SINGLE_STALL_DOWNSWITCH_MS
    GracedStall,            \* GRACED_STALL_DOWNSWITCH_MS
    CumulativeStall,        \* CUMULATIVE_STALL_DOWNSWITCH_MS
    StallWindow,            \* STALL_WINDOW_MS
    Startup,                \* STARTUP_DOWNSWITCH_MS
    PredictiveSamples,      \* PREDICTIVE_SAMPLE_COUNT
    ProbeSamples,           \* PROBE_MIN_SUB_SAMPLES
    Pins,                   \* the qualities the viewer chooses between
    MaxTime,                \* bound on the clock
    NoCamera, NoSource, NoFreeze   \* null, undefined

Never == -1                 \* no timer, no time yet
Qualities == {"auto", "main", "sub"}
Codecs == {"plays", "fails"}

Sources == [camera: Cameras, chunk: Chunks, route: Qualities]
Freezes == [start: Nat, graced: BOOLEAN]

ASSUME RecordingsAssumption ==
    /\ HasMain \subseteq Cameras \X Chunks
    /\ HasSub \subseteq Cameras \X Chunks
    /\ {Codec, LowCodec} \subseteq [Cameras -> Codecs]
    /\ Bitrate \in [Cameras -> Nat]
    /\ Rates \subseteq Nat \ {0} /\ Stored \subseteq Nat
    /\ HastyMoves \in BOOLEAN
    /\ NoCamera \notin Cameras
    /\ NoSource \notin Sources
    /\ NoFreeze \notin Freezes
    /\ SlowStart \in Nat
ASSUME BudgetAssumption ==
    /\ {SeekGrace, SingleStall, GracedStall, CumulativeStall, StallWindow,
        Startup, MaxTime} \subseteq Nat
    /\ {PredictiveSamples, ProbeSamples} \subseteq Nat \ {0}
    /\ Pins \subseteq Qualities

VARIABLES
    now,
    camera, chunk, quality, scrubbing,   \* props of the player
    coverage,       \* the coverage of <<camera, chunk>> has been fetched
    seeded,         \* seededCameraRef
    autoLow, rendered,                   \* autoLowQuality, autoLowQualityRef
    wanted, source,
    loaded,         \* sourceLoadedRef
    open,           \* openEpisode: NoFreeze or its start and grace
    episodes,       \* the ticks of the closed episodes in the window
    stallTimer, startupTimer,            \* when they fire
    lastSeek,
    lowSamples, armed, probes,
    mainUnplayable, holdLow,
    estimate, mainBitrate,               \* 0: undefined
    device,         \* data saver and the estimate stored on the device
    freeze,         \* what the viewer sees: NoFreeze or its start and grace
    frozen,         \* the ticks the picture of this source was frozen
    waitingSince    \* since when the viewer waits for the first frame

props == <<camera, chunk, quality, scrubbing, coverage>>
stalls == <<open, episodes, stallTimer, lastSeek>>
sampling == <<lowSamples, armed, probes>>
facts == <<mainUnplayable, holdLow, estimate, mainBitrate>>
player == <<rendered, wanted, source, loaded, startupTimer, waitingSince>>
viewer == <<freeze, frozen>>
vars == <<now, props, seeded, autoLow, player, stalls, sampling, facts,
          device, viewer>>
----------------------------------------------------------------------------
(* the player's decisions *)

SubAvailable == coverage /\ <<camera, chunk>> \in HasSub

EffectiveQuality(q, low) == IF q = "auto" /\ low THEN "sub" ELSE q

Recorded(route, cam, k) ==
    CASE route = "main" -> <<cam, k>> \in HasMain
      [] route = "sub" -> <<cam, k>> \in HasSub
      [] route = "auto" -> <<cam, k>> \in HasMain \cup HasSub

\* The source a render asks for: unchanged until the coverage is known.
SourceFor(cam, k, known, route) ==
    IF ~known THEN wanted
    ELSE IF Recorded(route, cam, k)
         THEN [camera |-> cam, chunk |-> k, route |-> route]
         ELSE NoSource

SeedDue == coverage /\ seeded # camera

RenderDue ==
    \/ rendered # autoLow
    \/ source # wanted
    \/ wanted # SourceFor(camera, chunk, coverage,
                          EffectiveQuality(quality, rendered))

\* (mutated) the release of the handlebar does not start the budget again
ReloadsOnSourceOnly(scrub) == wanted # source

\* The effect on [source, isScrubbing] has to start or end the budget of
\* the first frame.
Reloads(scrub) == wanted # source \/ (scrub # scrubbing /\ ~loaded)

Settled == coverage /\ ~RenderDue /\ ~SeedDue

\* One render and its effects, with these props: the source asked for by
\* the previous render reaches hls.js, which starts the budget of the first
\* frame.  "reset" says that the stall history was reset before.
Render(cam, k, known, q, scrub, reset) ==
    LET changed == wanted # source
        starts == wanted # NoSource /\ ~scrub
        reload == Reloads(scrub)
    IN  /\ rendered' = autoLow
        /\ source' = wanted
        /\ wanted' = SourceFor(cam, k, known, EffectiveQuality(q, autoLow))
        /\ loaded' = (loaded /\ ~changed)
        /\ startupTimer' = IF reload
                             THEN IF starts THEN now + Startup ELSE Never
                             ELSE IF reset \/ scrub THEN Never
                                  ELSE startupTimer
        /\ waitingSince' = IF reload
                             THEN IF starts THEN now ELSE Never
                             ELSE waitingSince
        /\ IF changed
             THEN freeze' = NoFreeze /\ frozen' = {}
             ELSE IF scrub /\ ~scrubbing
                    THEN freeze' = NoFreeze /\ UNCHANGED frozen
                    ELSE UNCHANGED viewer
----------------------------------------------------------------------------
(* the governor *)

Pruned(ticks, t) == {s \in ticks : s >= t - StallWindow}

WindowStall(t) == Cardinality(Pruned(episodes, t))

\* A seek no longer graces the stalls of time t.
Forget(seek, t) == IF seek # Never /\ t - seek < SeekGrace THEN seek ELSE Never

\* (mutated) every stall is given the budget of a seek
StallStartedGraced ==
    IF open # NoFreeze
      THEN UNCHANGED <<open, stallTimer>>
      ELSE /\ open' = [start |-> now, graced |-> Forget(lastSeek, now) # Never]
           /\ stallTimer' = now + GracedStall

\* (mutated) the stalls of the window do not shorten the budget
StallStartedAlone ==
    IF open # NoFreeze
      THEN UNCHANGED <<open, stallTimer>>
      ELSE LET graced == Forget(lastSeek, now) # Never
           IN  /\ open' = [start |-> now, graced |-> graced]
               /\ stallTimer' = now + IF graced THEN GracedStall
                                                ELSE SingleStall

StallStarted ==
    IF open # NoFreeze
      THEN UNCHANGED <<open, stallTimer>>
      ELSE LET graced == Forget(lastSeek, now) # Never
               left == CumulativeStall - WindowStall(now)
               budget == CASE graced -> GracedStall
                           [] ~graced /\ left < 0 -> 0
                           [] ~graced /\ left \in 0..SingleStall -> left
                           [] OTHER -> SingleStall
           IN  /\ open' = [start |-> now, graced |-> graced]
               /\ stallTimer' = now + budget

StallEnded ==
    IF open = NoFreeze
      THEN UNCHANGED <<open, episodes, stallTimer>>
      ELSE /\ open' = NoFreeze
           /\ stallTimer' = Never
           /\ episodes' = Pruned(episodes \cup
                 (IF open.graced THEN {} ELSE open.start .. (now - 1)), now)

ResetStallHistory ==
    /\ open' = NoFreeze
    /\ episodes' = {}
    /\ stallTimer' = Never
    /\ lowSamples' = 0
    /\ armed' = FALSE
    /\ probes' = 0

\* (mutated) data saver is not asked at a chunk boundary
RetryDespiteDataSaver ==
    /\ ~mainUnplayable
    /\ IF estimate # 0 /\ mainBitrate # 0
         THEN 2 * estimate > 3 * mainBitrate
         ELSE WindowStall(now) = 0

ShouldRetryMain ==
    /\ ~mainUnplayable
    /\ ~holdLow
    /\ IF estimate # 0 /\ mainBitrate # 0
         THEN 2 * estimate > 3 * mainBitrate
         ELSE /\ WindowStall(now) = 0
              /\ open # NoFreeze => open.graced \/ open.start = now

ShouldStartLow(est, bitrate) ==
    IF bitrate # 0 THEN 10 * est < 11 * bitrate ELSE est < SlowStart

\* tryDownswitch accepts the request of the governor.
CanDownswitch == quality = "auto" /\ SubAvailable /\ ~rendered

\* The governor asks the player, which arms the probe and says yes; then
\* the stall history is reset.
TriggerDownswitch ==
    /\ CanDownswitch
    /\ autoLow' = TRUE
    /\ ResetStallHistory
    /\ startupTimer' = Never

\* A request of the governor that the player turned down.
Refused == ~CanDownswitch /\ UNCHANGED autoLow
----------------------------------------------------------------------------
(* renders *)

Commit ==
    /\ RenderDue
    /\ Render(camera, chunk, coverage, quality, scrubbing, FALSE)
    /\ UNCHANGED <<now, props, seeded, autoLow, stalls, sampling, facts,
                   device>>

\* The request for the coverage of this camera and hour is answered.
CoverageArrives ==
    /\ ~coverage
    /\ coverage' = TRUE
    /\ Render(camera, chunk, TRUE, quality, scrubbing, FALSE)
    /\ UNCHANGED <<now, camera, chunk, quality, scrubbing, seeded, autoLow,
                   stalls, sampling, facts, device>>

\* (mutated) returning to auto starts on the original, decodable or not
SetQualityFresh(q) ==
    /\ q # quality
    /\ Settled \/ HastyMoves
    /\ quality' = q
    /\ Render(camera, chunk, coverage, q, scrubbing, TRUE)
    /\ ResetStallHistory
    /\ autoLow' = FALSE
    /\ UNCHANGED <<now, camera, chunk, scrubbing, coverage, seeded, lastSeek,
                   facts, device>>

\* A pin or unpin: the first render has the old autoLow, its effect
\* decides the new one.
SetQuality(q) ==
    /\ q # quality
    /\ Settled \/ HastyMoves
    /\ quality' = q
    /\ Render(camera, chunk, coverage, q, scrubbing, TRUE)
    /\ ResetStallHistory
    /\ autoLow' = mainUnplayable
    /\ UNCHANGED <<now, camera, chunk, scrubbing, coverage, seeded, lastSeek,
                   facts, device>>

SwitchCamera(c) ==
    /\ c # camera
    /\ Settled \/ HastyMoves
    /\ camera' = c
    /\ coverage' = FALSE
    /\ Render(c, chunk, FALSE, quality, scrubbing, TRUE)
    /\ ResetStallHistory
    /\ mainBitrate' = 0
    /\ mainUnplayable' = FALSE
    /\ autoLow' = FALSE
    /\ UNCHANGED <<now, chunk, quality, scrubbing, seeded, lastSeek, holdLow,
                   estimate, device>>

\* A chunk boundary is where full quality may be retried.
PlayChunk(k) ==
    /\ k # chunk
    /\ Settled \/ HastyMoves
    /\ chunk' = k
    /\ coverage' = FALSE
    /\ Render(camera, k, FALSE, quality, scrubbing, FALSE)
    /\ autoLow' = (autoLow /\ ~ShouldRetryMain)
    /\ UNCHANGED <<now, camera, quality, scrubbing, seeded, stalls, sampling,
                   facts, device>>

\* Dragging the handlebar pauses the player, which ends a stall.
Scrub ==
    /\ Settled \/ HastyMoves
    /\ scrubbing' = ~scrubbing
    /\ Render(camera, chunk, coverage, quality, scrubbing', FALSE)
    /\ IF scrubbing' THEN StallEnded
                     ELSE UNCHANGED <<open, episodes, stallTimer>>
    /\ UNCHANGED <<now, camera, chunk, quality, coverage, seeded, autoLow,
                   lastSeek, sampling, facts, device>>

\* What isCodecFamilySupported may say: a codec that fails passes when its
\* name is missing or unknown.
Supported(codec) == IF codec = "plays" THEN {TRUE} ELSE BOOLEAN

\* Once per camera, when its coverage and the stored estimate are known.
Seed ==
  \E mainSupported \in Supported(Codec[camera]),
     subSupported \in Supported(LowCodec[camera]) :
    LET est == IF estimate = 0 THEN device.stored ELSE estimate
        bitrate == IF mainBitrate = 0 THEN Bitrate[camera] ELSE mainBitrate
        decides == quality = "auto" /\ SubAvailable
        undecodable == ~mainSupported /\ subSupported
        cautious == est = 0 \/ ShouldStartLow(est, bitrate)
    IN  /\ SeedDue
        /\ seeded' = camera
        /\ estimate' = est
        /\ mainBitrate' = bitrate
        /\ holdLow' = (holdLow \/ (decides /\ device.saveData))
        /\ mainUnplayable' = (mainUnplayable \/ (decides /\ undecodable))
        /\ autoLow' = (autoLow \/ (decides /\
                          (undecodable \/ device.saveData \/ cautious)))
        /\ IF decides /\ ~undecodable /\ ~device.saveData /\ cautious
             THEN armed' = TRUE /\ probes' = 0
             ELSE UNCHANGED <<armed, probes>>
        /\ UNCHANGED <<now, props, player, stalls, lowSamples, device,
                       viewer>>
----------------------------------------------------------------------------
(* signals of the video element and of hls.js *)

\* The first frame: loadeddata, playing.
Load ==
    /\ source # NoSource
    /\ ~loaded
    /\ IF source.route = "sub" THEN LowCodec[source.camera] = "plays"
                               ELSE Codec[source.camera] = "plays"
    /\ loaded' = TRUE
    /\ startupTimer' = Never
    /\ waitingSince' = Never
    /\ StallEnded
    /\ UNCHANGED <<now, props, seeded, autoLow, rendered, wanted, source,
                   lastSeek, sampling, facts, device, viewer>>

\* BUFFER_STALLED_ERROR or a waiting event.
Freeze ==
    /\ loaded
    /\ ~scrubbing
    /\ freeze = NoFreeze
    /\ StallStarted
    /\ freeze' = [start |-> now,
                  graced |-> Forget(lastSeek, now) # Never]
    /\ UNCHANGED <<now, props, seeded, autoLow, player, episodes, lastSeek,
                   sampling, facts, device, frozen>>

\* STALL_RESOLVED, playing, a time update, or a pause.
Resume ==
    /\ freeze # NoFreeze
    /\ freeze' = NoFreeze
    /\ StallEnded
    /\ UNCHANGED <<now, props, seeded, autoLow, player, lastSeek, sampling,
                   facts, device, frozen>>

Seek ==
    /\ source # NoSource
    /\ lastSeek' = now
    /\ UNCHANGED <<now, props, seeded, autoLow, player, open, episodes,
                   stallTimer, sampling, facts, device, viewer>>

\* A segment of the low stream has been loaded.
SampleLow(est) ==
    /\ source # NoSource
    /\ EffectiveQuality(quality, rendered) = "sub"
    /\ estimate' = est
    /\ lowSamples' = 0
    /\ probes' = IF probes < ProbeSamples THEN probes + 1 ELSE probes
    /\ IF /\ armed
          /\ ~mainUnplayable
          /\ ~holdLow
          /\ probes' = ProbeSamples
          /\ mainBitrate # 0
          /\ 2 * est > 3 * mainBitrate
         THEN /\ armed' = FALSE
              /\ autoLow' = (autoLow /\ ~(quality = "auto" /\ rendered))
         ELSE UNCHANGED <<armed, autoLow>>
    /\ UNCHANGED <<now, props, seeded, player, stalls, mainUnplayable,
                   holdLow, mainBitrate, device, viewer>>

\* (mutated) a refused request leaves the counter running
SampleMainCounts(est, level) ==
    /\ source # NoSource
    /\ EffectiveQuality(quality, rendered) # "sub"
    /\ 10 * est < 11 * level
    /\ lowSamples' = lowSamples + 1
    /\ UNCHANGED <<now, props, seeded, autoLow, player, stalls, armed, probes,
                   facts, device, viewer>>

\* A segment has been loaded while the original leads; its level may not
\* advertise a bitrate (0).
SampleMain(est, level) ==
    /\ source # NoSource
    /\ EffectiveQuality(quality, rendered) # "sub"
    /\ estimate' = est
    /\ mainBitrate' = IF level = 0 THEN mainBitrate ELSE level
    /\ IF level = 0
         THEN UNCHANGED <<autoLow, player, stalls, sampling>>
         ELSE IF 10 * est >= 11 * level
         THEN lowSamples' = 0
              /\ UNCHANGED <<autoLow, player, stalls, armed, probes>>
         ELSE IF lowSamples + 1 < PredictiveSamples
         THEN lowSamples' = lowSamples + 1
              /\ UNCHANGED <<autoLow, player, stalls, armed, probes>>
         ELSE /\ \/ TriggerDownswitch
                 \/ /\ Refused
                    /\ lowSamples' = 0
                    /\ UNCHANGED <<startupTimer, open, episodes, stallTimer,
                                   armed, probes>>
              /\ UNCHANGED <<rendered, wanted, source, loaded, waitingSince,
                             lastSeek>>
    /\ UNCHANGED <<now, props, seeded, mainUnplayable, holdLow, device,
                   viewer>>

\* hls.js gave up loading.  Without a downswitch it starts over.
FatalNetworkError ==
    /\ source # NoSource
    /\ TriggerDownswitch
    /\ UNCHANGED <<now, props, seeded, rendered, wanted, source, loaded,
                   waitingSince, lastSeek, facts, device, viewer>>

\* The original stream turns out not to be decodable.
FatalCodecError ==
    /\ source # NoSource
    /\ source.route # "sub"
    /\ Codec[source.camera] # "plays"
    /\ mainUnplayable' = TRUE
    /\ \/ TriggerDownswitch
       \/ Refused /\ UNCHANGED <<startupTimer, open, episodes, stallTimer,
                                 sampling>>
    /\ UNCHANGED <<now, props, seeded, rendered, wanted, source, loaded,
                   waitingSince, lastSeek, holdLow, estimate, mainBitrate,
                   device, viewer>>
----------------------------------------------------------------------------
(* time *)

Due(timer) == timer # Never /\ timer <= now

StallTimerFires ==
    /\ Due(stallTimer)
    /\ \/ TriggerDownswitch
       \/ Refused /\ stallTimer' = Never
          /\ UNCHANGED <<startupTimer, open, episodes, sampling>>
    /\ UNCHANGED <<now, props, seeded, rendered, wanted, source, loaded,
                   waitingSince, lastSeek, facts, device, viewer>>

StartupTimerFires ==
    /\ Due(startupTimer)
    /\ \/ TriggerDownswitch
       \/ Refused /\ startupTimer' = Never
          /\ UNCHANGED <<open, episodes, stallTimer, sampling>>
    /\ UNCHANGED <<now, props, seeded, rendered, wanted, source, loaded,
                   waitingSince, lastSeek, facts, device, viewer>>

Tick ==
    /\ now < MaxTime
    /\ ~RenderDue /\ ~SeedDue /\ ~Due(stallTimer) /\ ~Due(startupTimer)
    /\ now' = now + 1
    /\ episodes' = Pruned(episodes, now')
    /\ lastSeek' = Forget(lastSeek, now')
    /\ frozen' = Pruned(IF freeze # NoFreeze /\ ~freeze.graced
                           THEN frozen \cup {now} ELSE frozen, now')
    /\ UNCHANGED <<props, seeded, autoLow, player, open, stallTimer, sampling,
                   facts, device, freeze>>

Init ==
    /\ now = 0
    /\ camera \in Cameras /\ chunk \in Chunks
    /\ quality \in Pins
    /\ scrubbing = FALSE
    /\ coverage = FALSE /\ seeded = NoCamera
    /\ autoLow = FALSE /\ rendered = FALSE
    /\ wanted = NoSource /\ source = NoSource /\ loaded = FALSE
    /\ open = NoFreeze /\ episodes = {}
    /\ stallTimer = Never /\ startupTimer = Never /\ lastSeek = Never
    /\ lowSamples = 0 /\ armed = FALSE /\ probes = 0
    /\ mainUnplayable = FALSE /\ holdLow = FALSE
    /\ estimate = 0 /\ mainBitrate = 0
    /\ device \in [saveData: BOOLEAN, stored: Stored]
    /\ freeze = NoFreeze /\ frozen = {} /\ waitingSince = Never

Next ==
    \/ Commit
    \/ CoverageArrives
    \/ \E q \in Pins : SetQuality(q)
    \/ \E c \in Cameras : SwitchCamera(c)
    \/ \E k \in Chunks : PlayChunk(k)
    \/ Scrub
    \/ Seed
    \/ Load
    \/ Freeze
    \/ Resume
    \/ Seek
    \/ \E est \in Rates : SampleLow(est)
    \/ \E est \in Rates, level \in {0, Bitrate[camera]} : SampleMain(est, level)
    \/ FatalNetworkError
    \/ FatalCodecError
    \/ StallTimerFires
    \/ StartupTimerFires
    \/ Tick

Spec == Init /\ [][Next]_vars
----------------------------------------------------------------------------
(* properties *)

TypeOK ==
    /\ now \in 0..MaxTime
    /\ camera \in Cameras /\ chunk \in Chunks
    /\ quality \in Qualities
    /\ {scrubbing, coverage, autoLow, rendered, loaded, armed,
        mainUnplayable, holdLow} \subseteq BOOLEAN
    /\ seeded \in Cameras \cup {NoCamera}
    /\ {wanted, source} \subseteq Sources \cup {NoSource}
    /\ {open, freeze} \subseteq Freezes \cup {NoFreeze}
    /\ {stallTimer, startupTimer, lastSeek, waitingSince} \subseteq
         Nat \cup {Never}
    /\ episodes \subseteq Nat /\ frozen \subseteq Nat
    /\ lowSamples \in 0..(PredictiveSamples - 1) /\ probes \in 0..ProbeSamples
    /\ estimate \in Nat /\ mainBitrate \in Nat
    /\ device \in [saveData: BOOLEAN, stored: Stored]

\* The viewer is on the original stream in auto, could be given the low one,
\* and nothing is being rendered.
CouldGoLow == CanDownswitch /\ source # NoSource /\ Settled

(***************************************************************************)
(* No freeze of the original stream outlasts its budget while the low      *)
(* stream could replace it: neither the waiting and stalled signals that   *)
(* overlap, nor seeks, scrubs, pins and source swaps lose its timer        *)
(* (record.md:379, AutoQualityGovernor.ts:161).                            *)
(***************************************************************************)
FreezesAreCut ==
    CouldGoLow /\ freeze # NoFreeze =>
        now - freeze.start <= IF freeze.graced THEN GracedStall
                                               ELSE SingleStall

(***************************************************************************)
(* Nor do short freezes add up: within a window they are cut at the        *)
(* cumulative budget, graced freezes left out (record.md:379,              *)
(* AutoQualityGovernor.ts:170).                                            *)
(***************************************************************************)
ChronicFreezesAreCut ==
    CouldGoLow =>
        Cardinality(Pruned(frozen, now)) <= CumulativeStall

(***************************************************************************)
(* A viewer in auto never waits longer for the first frame than the        *)
(* startup budget, whatever restarts or resets the load (record.md:381,    *)
(* DynamicVideoPlayer.tsx:585).                                            *)
(***************************************************************************)
StartupIsCut ==
    CouldGoLow /\ waitingSince # Never => now - waitingSince <= Startup

(***************************************************************************)
(* In auto, an original stream known to be undecodable is played no more:  *)
(* pins, chunk boundaries, probes and resets do not bring it back where    *)
(* the low stream was there to replace it (AutoQualityGovernor.ts:94).     *)
(***************************************************************************)
UndecodableStaysLow ==
    [][ mainUnplayable /\ mainUnplayable' /\ autoLow => autoLow' ]_vars

(***************************************************************************)
(* Playback returns to the original without the viewer's doing only when   *)
(* data saver does not hold it low and the throughput, if both numbers are *)
(* known, exceeds the bitrate by half (record.md:383).                     *)
(***************************************************************************)
AutomaticReturn ==
    [][ autoLow /\ ~autoLow' /\ quality' = quality /\ camera' = camera =>
            /\ ~holdLow /\ ~mainUnplayable
            /\ estimate' # 0 /\ mainBitrate # 0 =>
                   2 * estimate' > 3 * mainBitrate ]_vars

(***************************************************************************)
(* "checked continuously while playing the low quality stream"             *)
(* (record.md:383): while the low stream plays because of the connection,  *)
(* the probe for the return is armed.  TLC refutes it (README, section 6). *)
(***************************************************************************)
LowPlaybackIsProbed ==
    quality = "auto" /\ autoLow /\ ~mainUnplayable /\ ~holdLow /\ Settled =>
        armed
============================================================================
