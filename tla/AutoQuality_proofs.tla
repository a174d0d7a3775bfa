------------------------- MODULE AutoQuality_proofs -------------------------
(***************************************************************************)
(* Proofs about AutoQuality: the types of the state, the two action        *)
(* properties of autoLow, and the three budgets (of one freeze, of the     *)
(* freezes of a window and of the first frame).  The budgets are proved    *)
(* for a viewer who waits for the coverage of his last move (~HastyMoves). *)
(***************************************************************************)
EXTENDS AutoQuality, FiniteSetTheorems, TLAPS

(* TypeOK in groups, the sets of variables spelled out. *)
PropsOK ==
    /\ camera \in Cameras /\ chunk \in Chunks /\ quality \in Qualities
    /\ scrubbing \in BOOLEAN /\ coverage \in BOOLEAN
PlayerOK ==
    /\ rendered \in BOOLEAN /\ loaded \in BOOLEAN
    /\ wanted \in Sources \cup {NoSource} /\ source \in Sources \cup {NoSource}
    /\ startupTimer \in Nat \cup {Never} /\ waitingSince \in Nat \cup {Never}
StallsOK ==
    /\ open \in Freezes \cup {NoFreeze} /\ episodes \subseteq Nat
    /\ stallTimer \in Nat \cup {Never} /\ lastSeek \in Nat \cup {Never}
SamplingOK ==
    /\ lowSamples \in 0..(PredictiveSamples - 1) /\ probes \in 0..ProbeSamples
    /\ armed \in BOOLEAN
FactsOK ==
    /\ mainUnplayable \in BOOLEAN /\ holdLow \in BOOLEAN
    /\ estimate \in Nat /\ mainBitrate \in Nat
ViewerOK == freeze \in Freezes \cup {NoFreeze} /\ frozen \subseteq Nat
OthersOK ==
    /\ now \in 0..MaxTime
    /\ autoLow \in BOOLEAN
    /\ seeded \in Cameras \cup {NoCamera}
    /\ device \in [saveData: BOOLEAN, stored: Stored]

(* The types of the variables, by what they describe.                      *)
LEMMA TypeParts ==
    TypeOK <=> /\ PropsOK /\ PlayerOK /\ StallsOK /\ SamplingOK /\ FactsOK
               /\ ViewerOK /\ OthersOK
  BY DEF TypeOK, PropsOK, PlayerOK, StallsOK, SamplingOK, FactsOK, ViewerOK,
         OthersOK

LEMMA TypePartsNext ==
    TypeOK' <=> /\ PropsOK' /\ PlayerOK' /\ StallsOK' /\ SamplingOK'
                /\ FactsOK' /\ ViewerOK' /\ OthersOK'
  BY DEF TypeOK, PropsOK, PlayerOK, StallsOK, SamplingOK, FactsOK, ViewerOK,
         OthersOK

(* The closed episodes and the frozen ticks are finitely many: StallEnded  *)
(* counts them.                                                            *)
Finite == IsFiniteSet(episodes) /\ IsFiniteSet(frozen)

(* They are in the window, before now. *)
InWindow == \A s \in episodes \cup frozen : s >= now - StallWindow /\ s < now

-----------------------------------------------------------------------------
(* Operators *)

LEMMA Constants ==
    /\ SeekGrace \in Nat /\ SingleStall \in Nat /\ GracedStall \in Nat
    /\ CumulativeStall \in Nat /\ StallWindow \in Nat /\ Startup \in Nat
    /\ MaxTime \in Nat
    /\ PredictiveSamples \in Nat \ {0} /\ ProbeSamples \in Nat \ {0}
  BY BudgetAssumption

LEMMA Now == OthersOK => now \in Nat
  BY Constants DEF OthersOK

(* What is left of a set of ticks when the window moves on.                *)
LEMMA PrunedTicks ==
    ASSUME NEW S \in SUBSET Nat, NEW t \in Nat, IsFiniteSet(S)
    PROVE  /\ Pruned(S, t) \subseteq S
           /\ IsFiniteSet(Pruned(S, t))
           /\ Cardinality(Pruned(S, t)) <= Cardinality(S)
           /\ Cardinality(Pruned(S, t)) \in Nat
           /\ \A s \in S : s \in Pruned(S, t) <=> s >= t - StallWindow
<1>1. Pruned(S, t) \in SUBSET S
  BY DEF Pruned
<1>2. /\ IsFiniteSet(Pruned(S, t))
      /\ Cardinality(Pruned(S, t)) <= Cardinality(S)
  BY <1>1, FS_Subset
<1>3. Cardinality(Pruned(S, t)) \in Nat
  BY <1>2, FS_CardinalityType
<1>4. \A s \in S : s \in Pruned(S, t) <=> s >= t - StallWindow
  BY DEF Pruned
<1> QED
  BY <1>1, <1>2, <1>3, <1>4

(* A seek is forgotten after its grace, or is still a time.                *)
LEMMA Remembered ==
    ASSUME NEW seek \in Nat \cup {Never}, NEW t \in Nat
    PROVE  Forget(seek, t) \in Nat \cup {Never}
  BY DEF Forget

(* What a closed stall leaves: the ticks of the window, those of the stall *)
(* among them unless it was graced.                                        *)
LEMMA StallTicks ==
    ASSUME StallsOK, OthersOK, IsFiniteSet(episodes), open # NoFreeze,
           NEW new, new = IF open.graced THEN {} ELSE open.start .. (now - 1)
    PROVE  /\ episodes \cup new \subseteq Nat
           /\ IsFiniteSet(episodes \cup new)
<1>1. now \in Nat /\ open \in Freezes
  BY Now DEF StallsOK
<1>2. open.start \in Nat /\ now - 1 \in Int
  BY <1>1 DEF Freezes
<1>3. IsFiniteSet(open.start .. (now - 1)) /\ IsFiniteSet({})
  BY <1>2, FS_Interval, FS_EmptySet
<1>4. new \subseteq Nat /\ IsFiniteSet(new)
  BY <1>1, <1>2, <1>3
<1>5. episodes \subseteq Nat
  BY DEF StallsOK
<1>6. IsFiniteSet(episodes \cup new)
  BY <1>4, FS_Union
<1> QED
  BY <1>4, <1>5, <1>6

(* An episode that closes leaves its ticks in the window, unless the seek  *)
(* before it graced it; no other tick is lost (onStallEnd).                *)
LEMMA StallEnds ==
    ASSUME StallsOK, OthersOK, IsFiniteSet(episodes), StallEnded,
           lastSeek' = lastSeek
    PROVE  /\ StallsOK'
           /\ IsFiniteSet(episodes')
           /\ open' = NoFreeze
           /\ \A s \in episodes' :
                \/ s \in episodes
                \/ s >= now - StallWindow /\ s < now
           /\ \A s \in episodes : s >= now - StallWindow => s \in episodes'
           /\ open # NoFreeze /\ ~open.graced =>
                \A s \in Nat : s >= open.start /\ s < now /\ s >= now - StallWindow
                                 => s \in episodes'
<1>1. now \in Nat
  BY Now
<1>2. CASE open = NoFreeze
  BY <1>2 DEF StallEnded, StallsOK
<1>3. CASE open # NoFreeze
  <2> DEFINE new == IF open.graced THEN {} ELSE open.start .. (now - 1)
  <2>1. /\ open' = NoFreeze /\ stallTimer' = Never
        /\ episodes' = Pruned(episodes \cup new, now)
    BY <1>3 DEF StallEnded
  <2>2. /\ open \in Freezes
        /\ open.start \in Nat
    BY <1>3 DEF StallsOK, Freezes
  <2>3. \A s \in new : s \in Nat /\ s < now
    BY <1>1, <2>2
  <2>4. ~open.graced => \A s \in Nat : s >= open.start /\ s < now => s \in new
    BY <1>1, <2>2
  <2> HIDE DEF new
  <2>5. /\ episodes \cup new \subseteq Nat
        /\ IsFiniteSet(episodes \cup new)
    BY <1>3, StallTicks DEF new
  <2>6. /\ episodes' \subseteq episodes \cup new
        /\ IsFiniteSet(episodes')
        /\ \A s \in episodes \cup new : s \in episodes' <=> s >= now - StallWindow
    BY <2>1, <2>5, <1>1, PrunedTicks
  <2>7. StallsOK'
    BY <2>1, <2>5, <2>6 DEF StallsOK
  <2>8. \A s \in episodes' : s \in episodes \/ (s >= now - StallWindow /\ s < now)
    BY <2>3, <2>6
  <2>9. ~open.graced =>
          \A s \in Nat : s >= open.start /\ s < now /\ s >= now - StallWindow
                                 => s \in episodes'
    BY <2>4, <2>6
  <2> QED
    BY <2>1, <2>6, <2>7, <2>8, <2>9
<1> QED
  BY <1>2, <1>3

-----------------------------------------------------------------------------
(* A source is found or there is none.                                     *)
LEMMA SourceFound ==
    ASSUME PlayerOK, NEW cam \in Cameras, NEW k \in Chunks, NEW known \in BOOLEAN,
           NEW route \in Qualities
    PROVE  SourceFor(cam, k, known, route) \in Sources \cup {NoSource}
  BY DEF SourceFor, PlayerOK, Sources

(* What a render leaves in the player and on the screen has its types.     *)
LEMMA Rendered ==
    ASSUME PlayerOK, ViewerOK, OthersOK, IsFiniteSet(frozen),
           NEW cam \in Cameras, NEW k \in Chunks, NEW known \in BOOLEAN,
           NEW q \in Qualities, NEW scrub \in BOOLEAN, NEW reset \in BOOLEAN,
           Render(cam, k, known, q, scrub, reset)
    PROVE  /\ PlayerOK'
           /\ ViewerOK'
           /\ IsFiniteSet(frozen')
           /\ frozen' \subseteq frozen
<1>1. now \in Nat /\ Startup \in Nat
  BY Now, Constants
<1>2. EffectiveQuality(q, autoLow) \in Qualities
  BY DEF EffectiveQuality, Qualities
<1>3. SourceFor(cam, k, known, EffectiveQuality(q, autoLow))
        \in Sources \cup {NoSource}
  BY <1>2, SourceFound
<1>4. now + Startup \in Nat /\ now \in Nat
  BY <1>1
<1>5. /\ startupTimer' \in Nat \cup {Never}
      /\ waitingSince' \in Nat \cup {Never}
  BY <1>4 DEF Render, PlayerOK
<1>6. /\ rendered' \in BOOLEAN /\ loaded' \in BOOLEAN
      /\ wanted' \in Sources \cup {NoSource}
      /\ source' \in Sources \cup {NoSource}
  BY <1>3 DEF Render, PlayerOK, OthersOK
<1>7. \/ freeze' = NoFreeze /\ (frozen' = {} \/ frozen' = frozen)
      \/ freeze' = freeze /\ frozen' = frozen
  BY DEF Render, viewer
<1>8. ViewerOK' /\ IsFiniteSet(frozen') /\ frozen' \subseteq frozen
  BY <1>7, FS_EmptySet DEF ViewerOK
<1> QED
  BY <1>5, <1>6, <1>8 DEF PlayerOK

(* The timer that StallStarted sets: at once when the window is spent, and *)
(* within what the window still allows otherwise.                          *)
LEMMA StallStarts ==
    ASSUME StallsOK, OthersOK, IsFiniteSet(episodes), StallStarted,
           episodes' = episodes, lastSeek' = lastSeek
    PROVE  /\ StallsOK'
           /\ open = NoFreeze =>
                /\ open' = [start |-> now, graced |-> Forget(lastSeek, now) # Never]
                /\ stallTimer' \in Nat /\ stallTimer' >= now
                /\ Forget(lastSeek, now) # Never => stallTimer' <= now + GracedStall
                /\ Forget(lastSeek, now) = Never =>
                     /\ stallTimer' <= now + SingleStall
                     /\ \/ stallTimer' = now
                        \/ WindowStall(now) + (stallTimer' - now) <= CumulativeStall
<1>1. /\ now \in Nat
      /\ GracedStall \in Nat /\ SingleStall \in Nat /\ CumulativeStall \in Nat
  BY Now, Constants
<1>2. episodes \in SUBSET Nat
  BY DEF StallsOK
<1>3. WindowStall(now) \in Nat
  BY <1>1, <1>2, PrunedTicks DEF WindowStall
<1>4. CASE open # NoFreeze
  BY <1>4 DEF StallStarted, StallsOK
<1>5. CASE open = NoFreeze
  <2> DEFINE graced == Forget(lastSeek, now) # Never
             left == CumulativeStall - WindowStall(now)
             budget == CASE graced -> GracedStall
                         [] ~graced /\ left < 0 -> 0
                         [] ~graced /\ left \in 0..SingleStall -> left
                         [] OTHER -> SingleStall
  <2>1. /\ open' = [start |-> now, graced |-> graced]
        /\ stallTimer' = now + budget
    BY <1>5 DEF StallStarted
  <2>2. graced \in BOOLEAN /\ left \in Int
    BY <1>1, <1>3
  <2>3. CASE graced
    <3>1. budget = GracedStall
      BY <2>3
    <3> QED
      BY <2>1, <2>3, <3>1, <1>1, <1>5 DEF StallsOK, Freezes
  <2>4. CASE ~graced
    <3>1. /\ budget \in Nat /\ budget <= SingleStall
          /\ budget = 0 \/ WindowStall(now) + budget <= CumulativeStall
      <4>1. CASE left < 0
        BY <2>4, <4>1, <1>1
      <4>2. CASE left \in 0..SingleStall
        <5>1. ~(left < 0)
          BY <4>2, <1>1
        <5>2. budget = left
          BY <2>4, <4>2, <5>1
        <5> HIDE DEF budget
        <5> QED
          BY <4>2, <5>2, <1>1, <1>3
      <4>3. CASE ~(left < 0) /\ left \notin 0..SingleStall
        <5>1. budget = SingleStall
          BY <2>4, <4>3
        <5> HIDE DEF budget
        <5> QED
          BY <4>3, <5>1, <1>1, <1>3
      <4> QED
        BY <4>1, <4>2, <4>3
    <3> HIDE DEF budget, left
    <3>2. /\ stallTimer' \in Nat /\ stallTimer' >= now
          /\ stallTimer' <= now + SingleStall
          /\ \/ stallTimer' = now
             \/ WindowStall(now) + (stallTimer' - now) <= CumulativeStall
      BY <2>1, <3>1, <1>1, <1>3
    <3>3. StallsOK'
      BY <2>1, <2>2, <3>2, <1>1 DEF StallsOK, Freezes
    <3> QED
      BY <2>1, <2>4, <3>2, <3>3, <1>5
  <2> QED
    BY <2>3, <2>4
<1> QED
  BY <1>4, <1>5

(* A reset of the history closes the episode and disarms the probe.        *)
LEMMA HistoryReset ==
    ResetStallHistory /\ StallsOK /\ lastSeek' = lastSeek =>
        StallsOK' /\ SamplingOK' /\ open' = NoFreeze /\ IsFiniteSet(episodes')
<1>1. PredictiveSamples \in Nat \ {0} /\ ProbeSamples \in Nat \ {0}
  BY Constants
<1>2. 0 \in 0..(PredictiveSamples - 1) /\ 0 \in 0..ProbeSamples
  BY <1>1
<1> QED
  BY <1>2, FS_EmptySet DEF ResetStallHistory, StallsOK, SamplingOK

(* A downswitch resets the history and stops both timers.                  *)
LEMMA Downswitched ==
    TriggerDownswitch /\ StallsOK /\ lastSeek' = lastSeek =>
        /\ StallsOK' /\ SamplingOK' /\ IsFiniteSet(episodes')
        /\ autoLow' = TRUE /\ startupTimer' = Never
  BY HistoryReset DEF TriggerDownswitch

-----------------------------------------------------------------------------
(* Types *)

Shape == TypeOK /\ Finite

LEMMA ShapeParts ==
    Shape <=> /\ PropsOK /\ PlayerOK /\ StallsOK /\ SamplingOK /\ FactsOK
              /\ ViewerOK /\ OthersOK
              /\ IsFiniteSet(episodes) /\ IsFiniteSet(frozen)
  BY TypeParts DEF Shape, Finite

LEMMA ShapeNext ==
    Shape' <=> /\ PropsOK' /\ PlayerOK' /\ StallsOK' /\ SamplingOK'
               /\ FactsOK' /\ ViewerOK' /\ OthersOK'
               /\ IsFiniteSet(episodes') /\ IsFiniteSet(frozen')
  BY TypePartsNext DEF Shape, Finite

LEMMA ShapeInit == Init => Shape
<1> SUFFICES ASSUME Init PROVE Shape
  OBVIOUS
<1>1. MaxTime \in Nat /\ PredictiveSamples \in Nat \ {0} /\ ProbeSamples \in Nat \ {0}
  BY Constants
<1>2. PropsOK
  BY BudgetAssumption DEF Init, PropsOK
<1>5. PlayerOK /\ ViewerOK
  BY DEF Init, PlayerOK, ViewerOK
<1>6. StallsOK
  BY DEF Init, StallsOK
<1>7. FactsOK
  BY DEF Init, FactsOK
<1>3. SamplingOK
  <2>1. lowSamples = 0 /\ armed = FALSE /\ probes = 0
    BY DEF Init
  <2>2. 0 \in 0..(PredictiveSamples - 1) /\ 0 \in 0..ProbeSamples
    BY <1>1
  <2> QED
    BY <2>1, <2>2 DEF SamplingOK
<1>8. OthersOK
  <2>1. /\ now = 0 /\ seeded = NoCamera /\ autoLow = FALSE
        /\ device \in [saveData: BOOLEAN, stored: Stored]
    BY DEF Init
  <2>2. 0 \in 0..MaxTime
    BY <1>1
  <2> QED
    BY <2>1, <2>2 DEF OthersOK
<1>4. IsFiniteSet(episodes) /\ IsFiniteSet(frozen)
  BY FS_EmptySet DEF Init
<1> QED
  BY <1>2, <1>3, <1>4, <1>5, <1>6, <1>7, <1>8, ShapeParts

(* The actions that render. *)
Renders ==
    \/ Commit \/ CoverageArrives \/ Scrub
    \/ \E q \in Pins : SetQuality(q)
    \/ \E c \in Cameras : SwitchCamera(c)
    \/ \E k \in Chunks : PlayChunk(k)

(* A render, with the props that it leaves behind. *)
LEMMA ShapeRender ==
    Shape /\ Renders => Shape'
<1> SUFFICES ASSUME Shape, Renders
             PROVE  Shape'
  OBVIOUS
<1>0. /\ PropsOK /\ PlayerOK /\ StallsOK /\ SamplingOK /\ FactsOK
      /\ ViewerOK /\ OthersOK
      /\ IsFiniteSet(episodes) /\ IsFiniteSet(frozen)
  BY ShapeParts
<1>1. CASE Commit
  <2>1. Render(camera, chunk, coverage, quality, scrubbing, FALSE)
    BY <1>1 DEF Commit
  <2>2. PlayerOK' /\ ViewerOK' /\ IsFiniteSet(frozen')
    BY <1>0, <2>1, Rendered DEF PropsOK
  <2>3. UNCHANGED <<now, camera, chunk, quality, scrubbing, coverage, seeded,
                    autoLow, open, episodes, stallTimer, lastSeek, lowSamples,
                    armed, probes, mainUnplayable, holdLow, estimate,
                    mainBitrate, device>>
    BY <1>1 DEF Commit, props, stalls, sampling, facts
  <2>4. PropsOK' /\ StallsOK' /\ SamplingOK' /\ FactsOK' /\ OthersOK'
        /\ IsFiniteSet(episodes')
    BY <1>0, <2>3 DEF PropsOK, StallsOK, SamplingOK, FactsOK, OthersOK
  <2> QED
    BY <2>2, <2>4, ShapeNext
<1>2. CASE CoverageArrives
  <2>1. Render(camera, chunk, TRUE, quality, scrubbing, FALSE)
    BY <1>2 DEF CoverageArrives
  <2>2. PlayerOK' /\ ViewerOK' /\ IsFiniteSet(frozen')
    BY <1>0, <2>1, Rendered DEF PropsOK
  <2>3. /\ coverage' = TRUE
        /\ UNCHANGED <<now, camera, chunk, quality, scrubbing, seeded,
                    autoLow, open, episodes, stallTimer, lastSeek, lowSamples,
                    armed, probes, mainUnplayable, holdLow, estimate,
                    mainBitrate, device>>
    BY <1>2 DEF CoverageArrives, stalls, sampling, facts
  <2>4. PropsOK' /\ StallsOK' /\ SamplingOK' /\ FactsOK' /\ OthersOK'
        /\ IsFiniteSet(episodes')
    BY <1>0, <2>3 DEF PropsOK, StallsOK, SamplingOK, FactsOK, OthersOK
  <2> QED
    BY <2>2, <2>4, ShapeNext
<1>3. ASSUME NEW q \in Pins, SetQuality(q)
      PROVE  Shape'
  <2>0. q \in Qualities
    BY BudgetAssumption
  <2>1. /\ Render(camera, chunk, coverage, q, scrubbing, TRUE)
        /\ ResetStallHistory
        /\ autoLow' = mainUnplayable
    BY <1>3 DEF SetQuality
  <2>2. PlayerOK' /\ ViewerOK' /\ IsFiniteSet(frozen')
    BY <1>0, <2>0, <2>1, Rendered DEF PropsOK
  <2>3. /\ quality' = q
        /\ UNCHANGED <<now, camera, chunk, scrubbing, coverage, seeded, lastSeek,
                    mainUnplayable, holdLow, estimate, mainBitrate, device>>
    BY <1>3 DEF SetQuality, facts
  <2>4. StallsOK' /\ SamplingOK' /\ IsFiniteSet(episodes')
    BY <1>0, <2>1, <2>3, HistoryReset
  <2>5. PropsOK' /\ FactsOK' /\ OthersOK'
    BY <1>0, <2>0, <2>1, <2>3 DEF PropsOK, FactsOK, OthersOK
  <2> QED
    BY <2>2, <2>4, <2>5, ShapeNext
<1>4. ASSUME NEW c \in Cameras, SwitchCamera(c)
      PROVE  Shape'
  <2>1. /\ Render(c, chunk, FALSE, quality, scrubbing, TRUE)
        /\ ResetStallHistory
        /\ autoLow' = FALSE
    BY <1>4 DEF SwitchCamera
  <2>2. PlayerOK' /\ ViewerOK' /\ IsFiniteSet(frozen')
    BY <1>0, <2>1, Rendered DEF PropsOK
  <2>3. /\ camera' = c /\ coverage' = FALSE
        /\ mainBitrate' = 0 /\ mainUnplayable' = FALSE
        /\ UNCHANGED <<now, chunk, quality, scrubbing, seeded, lastSeek,
                    holdLow, estimate, device>>
    BY <1>4 DEF SwitchCamera
  <2>4. StallsOK' /\ SamplingOK' /\ IsFiniteSet(episodes')
    BY <1>0, <2>1, <2>3, HistoryReset
  <2>5. PropsOK' /\ FactsOK' /\ OthersOK'
    BY <1>0, <2>1, <2>3 DEF PropsOK, FactsOK, OthersOK
  <2> QED
    BY <2>2, <2>4, <2>5, ShapeNext
<1>5. ASSUME NEW k \in Chunks, PlayChunk(k)
      PROVE  Shape'
  <2>1. Render(camera, k, FALSE, quality, scrubbing, FALSE)
    BY <1>5 DEF PlayChunk
  <2>2. PlayerOK' /\ ViewerOK' /\ IsFiniteSet(frozen')
    BY <1>0, <2>1, Rendered DEF PropsOK
  <2>3. /\ chunk' = k /\ coverage' = FALSE
        /\ UNCHANGED <<now, camera, quality, scrubbing, seeded, open, episodes,
                    stallTimer, lastSeek, lowSamples, armed, probes,
                    mainUnplayable, holdLow, estimate, mainBitrate, device>>
    BY <1>5 DEF PlayChunk, stalls, sampling, facts
  <2>4. autoLow' \in BOOLEAN
    BY <1>5 DEF PlayChunk
  <2>5. PropsOK' /\ StallsOK' /\ SamplingOK' /\ FactsOK' /\ OthersOK'
        /\ IsFiniteSet(episodes')
    BY <1>0, <2>3, <2>4 DEF PropsOK, StallsOK, SamplingOK, FactsOK, OthersOK
  <2> QED
    BY <2>2, <2>5, ShapeNext
<1>6. CASE Scrub
  <2>0. scrubbing' = (~scrubbing)
    BY <1>6 DEF Scrub
  <2>1. /\ Render(camera, chunk, coverage, quality, scrubbing', FALSE)
        /\ scrubbing' \in BOOLEAN
    BY <1>6, <2>0 DEF Scrub
  <2>2. PlayerOK' /\ ViewerOK' /\ IsFiniteSet(frozen')
    BY <1>0, <2>1, Rendered DEF PropsOK
  <2>3. UNCHANGED <<now, camera, chunk, quality, coverage, seeded, autoLow,
                    lastSeek, lowSamples, armed, probes,
                    mainUnplayable, holdLow, estimate, mainBitrate, device>>
    BY <1>6 DEF Scrub, sampling, facts
  <2>4. StallEnded \/ UNCHANGED <<open, episodes, stallTimer>>
    BY <1>6 DEF Scrub
  <2>5. StallsOK' /\ IsFiniteSet(episodes')
    <3>1. CASE StallEnded
      BY <3>1, <1>0, <2>3, StallEnds
    <3>2. CASE UNCHANGED <<open, episodes, stallTimer>>
      BY <3>2, <1>0, <2>3 DEF StallsOK
    <3> QED
      BY <2>4, <3>1, <3>2
  <2>6. PropsOK' /\ SamplingOK' /\ FactsOK' /\ OthersOK'
    BY <1>0, <2>1, <2>3 DEF PropsOK, SamplingOK, FactsOK, OthersOK
  <2> QED
    BY <2>2, <2>5, <2>6, ShapeNext
<1> QED
  BY <1>1, <1>2, <1>3, <1>4, <1>5, <1>6 DEF Renders

(* Signals of the player keep the shape,                                   *)
LEMMA ShapeSignal ==
    Shape /\ (Load \/ Freeze \/ Resume \/ Seek \/ FatalNetworkError
              \/ FatalCodecError \/ StallTimerFires \/ StartupTimerFires)
        => Shape'
<1> SUFFICES ASSUME Shape,
                    Load \/ Freeze \/ Resume \/ Seek \/ FatalNetworkError
                    \/ FatalCodecError \/ StallTimerFires \/ StartupTimerFires
             PROVE  Shape'
  OBVIOUS
<1>0. /\ PropsOK /\ PlayerOK /\ StallsOK /\ SamplingOK /\ FactsOK
      /\ ViewerOK /\ OthersOK
      /\ IsFiniteSet(episodes) /\ IsFiniteSet(frozen)
  BY ShapeParts
<1>1. CASE Load
  <2>1. /\ StallEnded /\ loaded' = TRUE
        /\ startupTimer' = Never /\ waitingSince' = Never
        /\ UNCHANGED <<now, camera, chunk, quality, scrubbing, coverage, seeded,
                    autoLow, rendered, wanted, source, lastSeek, lowSamples,
                    armed, probes, mainUnplayable, holdLow, estimate,
                    mainBitrate, device, freeze, frozen>>
    BY <1>1 DEF Load, props, sampling, facts, viewer
  <2>2. StallsOK' /\ IsFiniteSet(episodes')
    BY <1>0, <2>1, StallEnds
  <2>3. PropsOK' /\ PlayerOK' /\ SamplingOK' /\ FactsOK' /\ ViewerOK' /\ OthersOK'
        /\ IsFiniteSet(frozen')
    BY <1>0, <2>1
       DEF PropsOK, PlayerOK, SamplingOK, FactsOK, ViewerOK, OthersOK
  <2> QED
    BY <2>2, <2>3, ShapeNext
<1>2. CASE Freeze
  <2>1. /\ StallStarted
        /\ freeze' = [start |-> now, graced |-> Forget(lastSeek, now) # Never]
        /\ UNCHANGED <<now, camera, chunk, quality, scrubbing, coverage, seeded,
                    autoLow, rendered, wanted, source, loaded, startupTimer,
                    waitingSince, episodes, lastSeek, lowSamples,
                    armed, probes, mainUnplayable, holdLow, estimate,
                    mainBitrate, device, frozen>>
    BY <1>2 DEF Freeze, props, player, sampling, facts
  <2>2. StallsOK'
    BY <1>0, <2>1, StallStarts
  <2>3. ViewerOK' /\ IsFiniteSet(frozen') /\ IsFiniteSet(episodes')
    BY <1>0, <2>1, Now DEF ViewerOK, Freezes
  <2>4. PropsOK' /\ PlayerOK' /\ SamplingOK' /\ FactsOK' /\ OthersOK'
    BY <1>0, <2>1 DEF PropsOK, PlayerOK, SamplingOK, FactsOK, OthersOK
  <2> QED
    BY <2>2, <2>3, <2>4, ShapeNext
<1>3. CASE Resume
  <2>1. /\ StallEnded /\ freeze' = NoFreeze
        /\ UNCHANGED <<now, camera, chunk, quality, scrubbing, coverage, seeded,
                    autoLow, rendered, wanted, source, loaded, startupTimer,
                    waitingSince, lastSeek, lowSamples,
                    armed, probes, mainUnplayable, holdLow, estimate,
                    mainBitrate, device, frozen>>
    BY <1>3 DEF Resume, props, player, sampling, facts
  <2>2. StallsOK' /\ IsFiniteSet(episodes')
    BY <1>0, <2>1, StallEnds
  <2>3. PropsOK' /\ PlayerOK' /\ SamplingOK' /\ FactsOK' /\ ViewerOK' /\ OthersOK'
        /\ IsFiniteSet(frozen')
    BY <1>0, <2>1
       DEF PropsOK, PlayerOK, SamplingOK, FactsOK, ViewerOK, OthersOK
  <2> QED
    BY <2>2, <2>3, ShapeNext
<1>4. CASE Seek
  <2>1. /\ lastSeek' = now
        /\ UNCHANGED <<now, camera, chunk, quality, scrubbing, coverage, seeded,
                    autoLow, rendered, wanted, source, loaded, startupTimer,
                    waitingSince, open, episodes, stallTimer, lowSamples,
                    armed, probes, mainUnplayable, holdLow, estimate,
                    mainBitrate, device, freeze, frozen>>
    BY <1>4 DEF Seek, props, player, sampling, facts, viewer
  <2>2. StallsOK'
    BY <1>0, <2>1, Now DEF StallsOK
  <2>3. PropsOK' /\ PlayerOK' /\ SamplingOK' /\ FactsOK' /\ ViewerOK' /\ OthersOK'
        /\ IsFiniteSet(frozen') /\ IsFiniteSet(episodes')
    BY <1>0, <2>1
       DEF PropsOK, PlayerOK, SamplingOK, FactsOK, ViewerOK, OthersOK
  <2> QED
    BY <2>2, <2>3, ShapeNext
<1>5. CASE FatalNetworkError \/ FatalCodecError \/ StallTimerFires
           \/ StartupTimerFires
  <2>1. /\ \/ TriggerDownswitch
           \/ /\ autoLow' = autoLow
              /\ startupTimer' = startupTimer \/ startupTimer' = Never
              /\ stallTimer' = stallTimer \/ stallTimer' = Never
              /\ UNCHANGED <<open, episodes, lowSamples, armed, probes>>
        /\ mainUnplayable' = mainUnplayable \/ mainUnplayable' = TRUE
        /\ UNCHANGED <<now, camera, chunk, quality, scrubbing, coverage, seeded,
                    rendered, wanted, source, loaded, waitingSince, lastSeek,
                    holdLow, estimate, mainBitrate, device, freeze, frozen>>
    <3>1. CASE FatalNetworkError
      BY <3>1 DEF FatalNetworkError, props, facts, viewer
    <3>2. CASE FatalCodecError
      BY <3>2 DEF FatalCodecError, Refused, props, sampling, viewer
    <3>3. CASE StallTimerFires
      BY <3>3 DEF StallTimerFires, Refused, props, sampling, facts, viewer
    <3>4. CASE StartupTimerFires
      BY <3>4 DEF StartupTimerFires, Refused, props, sampling, facts, viewer
    <3> QED
      BY <1>5, <3>1, <3>2, <3>3, <3>4
  <2>2. /\ StallsOK' /\ SamplingOK' /\ IsFiniteSet(episodes')
        /\ autoLow' \in BOOLEAN /\ startupTimer' \in Nat \cup {Never}
    <3>1. CASE TriggerDownswitch
      BY <3>1, <1>0, <2>1, Downswitched
    <3>2. CASE ~TriggerDownswitch
      BY <3>2, <1>0, <2>1 DEF StallsOK, SamplingOK, PlayerOK, OthersOK
    <3> QED
      BY <3>1, <3>2
  <2>3. PlayerOK' /\ OthersOK' /\ IsFiniteSet(frozen')
    BY <1>0, <2>1, <2>2 DEF PlayerOK, OthersOK
  <2>4. PropsOK' /\ ViewerOK'
    BY <1>0, <2>1 DEF PropsOK, ViewerOK
  <2>5. FactsOK'
    BY <1>0, <2>1 DEF FactsOK
  <2> QED
    BY <2>2, <2>3, <2>4, <2>5, ShapeNext
<1> QED
  BY <1>1, <1>2, <1>3, <1>4, <1>5

LEMMA ShapeSeed == Shape /\ Seed => Shape'
<1> SUFFICES ASSUME Shape, Seed PROVE Shape'
  OBVIOUS
<1>0. /\ PropsOK /\ PlayerOK /\ StallsOK /\ SamplingOK /\ FactsOK
      /\ ViewerOK /\ OthersOK
      /\ IsFiniteSet(episodes) /\ IsFiniteSet(frozen)
  BY ShapeParts
<1>1. UNCHANGED <<now, camera, chunk, quality, scrubbing, coverage, rendered,
                  wanted, source, loaded, startupTimer, waitingSince, open,
                  episodes, stallTimer, lastSeek, lowSamples, device, freeze,
                  frozen>>
  BY DEF Seed, props, player, stalls, viewer
<1>2. /\ seeded' = camera
      /\ estimate' \in {estimate, device.stored}
      /\ mainBitrate' \in {mainBitrate, Bitrate[camera]}
  BY DEF Seed
<1>3. device.stored \in Nat /\ Bitrate[camera] \in Nat
  BY <1>0, RecordingsAssumption DEF OthersOK, PropsOK
<1>4. seeded' \in Cameras /\ estimate' \in Nat /\ mainBitrate' \in Nat
  BY <1>0, <1>2, <1>3 DEF PropsOK, FactsOK
<1>5. /\ holdLow' \in BOOLEAN /\ mainUnplayable' \in BOOLEAN
      /\ autoLow' \in BOOLEAN
  BY Zenon DEF Seed
<1>6. \/ armed' = TRUE /\ probes' = 0
      \/ armed' = armed /\ probes' = probes
  BY DEF Seed
<1>7. 0 \in 0..ProbeSamples
  BY Constants
<1>8. SamplingOK'
  BY <1>0, <1>1, <1>6, <1>7 DEF SamplingOK
<1>9. PropsOK' /\ PlayerOK' /\ StallsOK' /\ ViewerOK'
      /\ IsFiniteSet(frozen') /\ IsFiniteSet(episodes')
  BY <1>0, <1>1 DEF PropsOK, PlayerOK, StallsOK, ViewerOK
<1>10. FactsOK' /\ OthersOK'
  BY <1>0, <1>1, <1>4, <1>5 DEF FactsOK, OthersOK
<1> QED
  BY <1>8, <1>9, <1>10, ShapeNext

(* so do samples of the throughput,                                        *)
LEMMA ShapeSampleLow ==
    ASSUME Shape, NEW est \in Rates, SampleLow(est)
    PROVE  Shape'
<1>0. /\ PropsOK /\ PlayerOK /\ StallsOK /\ SamplingOK /\ FactsOK
      /\ ViewerOK /\ OthersOK
      /\ IsFiniteSet(episodes) /\ IsFiniteSet(frozen)
  BY ShapeParts
<1>1. /\ estimate' = est /\ est \in Nat
      /\ lowSamples' = 0
      /\ UNCHANGED <<now, camera, chunk, quality, scrubbing, coverage, rendered,
                  seeded, wanted, source, loaded, startupTimer, waitingSince,
                  open, episodes, stallTimer, lastSeek, mainUnplayable, holdLow,
                  mainBitrate, device, freeze, frozen>>
  BY RecordingsAssumption DEF SampleLow, props, player, stalls, viewer
<1>2. /\ probes' = IF probes < ProbeSamples THEN probes + 1 ELSE probes
      /\ \/ armed' = FALSE /\ autoLow' = (autoLow /\ ~(quality = "auto" /\ rendered))
         \/ armed' = armed /\ autoLow' = autoLow
  BY DEF SampleLow
<1>3. probes' \in 0..ProbeSamples /\ 0 \in 0..(PredictiveSamples - 1)
  BY <1>0, <1>2, Constants DEF SamplingOK
<1>4. armed' \in BOOLEAN /\ autoLow' \in BOOLEAN
  BY <1>0, <1>2 DEF SamplingOK, OthersOK
<1>5. SamplingOK'
  BY <1>1, <1>3, <1>4 DEF SamplingOK
<1>6. PropsOK' /\ PlayerOK' /\ StallsOK' /\ ViewerOK'
      /\ IsFiniteSet(frozen') /\ IsFiniteSet(episodes')
  BY <1>0, <1>1 DEF PropsOK, PlayerOK, StallsOK, ViewerOK
<1>7. FactsOK' /\ OthersOK'
  BY <1>0, <1>1, <1>4 DEF FactsOK, OthersOK
<1> QED
  BY <1>5, <1>6, <1>7, ShapeNext

(* Every sample of the original either triggers a downswitch or only       *)
(* counts.                                                                 *)
LEMMA SampleMainDoes ==
    ASSUME Shape, NEW est \in Rates, NEW level \in {0, Bitrate[camera]},
           SampleMain(est, level)
    PROVE  /\ UNCHANGED <<now, camera, chunk, quality, scrubbing, coverage,
                  seeded, rendered, wanted, source, loaded, waitingSince,
                  lastSeek, mainUnplayable, holdLow, device, freeze, frozen>>
           /\ estimate' = est
           /\ mainBitrate' \in {mainBitrate, level}
           /\ \/ TriggerDownswitch
              \/ /\ UNCHANGED <<autoLow, startupTimer, open, episodes,
                                stallTimer, armed, probes>>
                 /\ \/ lowSamples' = lowSamples \/ lowSamples' = 0
                    \/ /\ lowSamples' = lowSamples + 1
                       /\ lowSamples + 1 < PredictiveSamples
<1>1. /\ UNCHANGED <<now, camera, chunk, quality, scrubbing, coverage, seeded,
                     mainUnplayable, holdLow, device, freeze, frozen>>
      /\ estimate' = est
      /\ mainBitrate' \in {mainBitrate, level}
  BY DEF SampleMain, props, viewer
<1>2. CASE level = 0
  BY <1>1, <1>2 DEF SampleMain, player, stalls, sampling
<1>3. CASE level # 0 /\ 10 * est >= 11 * level
  BY <1>1, <1>3 DEF SampleMain, player, stalls
<1>4. CASE level # 0 /\ ~(10 * est >= 11 * level) /\ lowSamples + 1 < PredictiveSamples
  BY <1>1, <1>4 DEF SampleMain, player, stalls
<1>5. CASE level # 0 /\ ~(10 * est >= 11 * level)
           /\ ~(lowSamples + 1 < PredictiveSamples)
  <2>1. /\ \/ TriggerDownswitch
           \/ /\ Refused
              /\ lowSamples' = 0
              /\ UNCHANGED <<startupTimer, open, episodes, stallTimer, armed, probes>>
        /\ UNCHANGED <<rendered, wanted, source, loaded, waitingSince, lastSeek>>
    BY <1>5 DEF SampleMain
  <2> QED
    BY <1>1, <2>1 DEF Refused
<1> QED
  BY <1>2, <1>3, <1>4, <1>5

LEMMA ShapeSampleMain ==
    ASSUME Shape, NEW est \in Rates, NEW level \in {0, Bitrate[camera]},
           SampleMain(est, level)
    PROVE  Shape'
<1>0. /\ PropsOK /\ PlayerOK /\ StallsOK /\ SamplingOK /\ FactsOK
      /\ ViewerOK /\ OthersOK
      /\ IsFiniteSet(episodes) /\ IsFiniteSet(frozen)
  BY ShapeParts
<1>1. est \in Nat /\ level \in Nat
  BY <1>0, RecordingsAssumption DEF PropsOK
<1>2. /\ UNCHANGED <<now, camera, chunk, quality, scrubbing, coverage,
                  seeded, rendered, wanted, source, loaded, waitingSince,
                  lastSeek, mainUnplayable, holdLow, device, freeze, frozen>>
      /\ estimate' = est
      /\ mainBitrate' \in {mainBitrate, level}
  BY SampleMainDoes
<1>3. \/ TriggerDownswitch
      \/ /\ UNCHANGED <<autoLow, startupTimer, open, episodes, stallTimer,
                        armed, probes>>
         /\ \/ lowSamples' = lowSamples \/ lowSamples' = 0
            \/ /\ lowSamples' = lowSamples + 1
               /\ lowSamples + 1 < PredictiveSamples
  BY SampleMainDoes
<1>4. /\ StallsOK' /\ SamplingOK' /\ IsFiniteSet(episodes')
      /\ autoLow' \in BOOLEAN /\ startupTimer' \in Nat \cup {Never}
  <2>1. CASE TriggerDownswitch
    BY <2>1, <1>0, <1>2, Downswitched
  <2>2. CASE ~TriggerDownswitch
    <3>1. UNCHANGED <<autoLow, startupTimer, open, episodes, stallTimer,
                      armed, probes>>
      BY <1>3, <2>2
    <3>2. lowSamples' \in 0..(PredictiveSamples - 1)
      BY <1>0, <1>3, <2>2, Constants DEF SamplingOK
    <3> QED
      BY <1>0, <1>2, <3>1, <3>2 DEF StallsOK, SamplingOK, PlayerOK, OthersOK
  <2> QED
    BY <2>1, <2>2
<1>5. PropsOK' /\ ViewerOK' /\ FactsOK'
  BY <1>0, <1>1, <1>2 DEF PropsOK, ViewerOK, FactsOK
<1>6. PlayerOK' /\ OthersOK' /\ IsFiniteSet(frozen')
  BY <1>0, <1>2, <1>4 DEF PlayerOK, OthersOK
<1> QED
  BY <1>4, <1>5, <1>6, ShapeNext

(* and the clock.                                                          *)
LEMMA ShapeTick == Shape /\ Tick => Shape'
<1> SUFFICES ASSUME Shape, Tick PROVE Shape'
  OBVIOUS
<1>0. /\ PropsOK /\ PlayerOK /\ StallsOK /\ SamplingOK /\ FactsOK
      /\ ViewerOK /\ OthersOK
      /\ IsFiniteSet(episodes) /\ IsFiniteSet(frozen)
  BY ShapeParts
<1> DEFINE seen == IF freeze # NoFreeze /\ ~freeze.graced
                     THEN frozen \cup {now} ELSE frozen
<1>1. /\ now < MaxTime /\ now' = now + 1
      /\ episodes' = Pruned(episodes, now')
      /\ lastSeek' = Forget(lastSeek, now')
      /\ frozen' = Pruned(seen, now')
      /\ UNCHANGED <<camera, chunk, quality, scrubbing, coverage, seeded,
                     autoLow, rendered, wanted, source, loaded, startupTimer,
                     waitingSince, open, stallTimer, lowSamples, armed, probes,
                     mainUnplayable, holdLow, estimate, mainBitrate, device,
                     freeze>>
  BY DEF Tick, props, player, sampling, facts
<1>2. now \in Nat /\ now' \in Nat /\ now' \in 0..MaxTime
  BY <1>0, <1>1, Constants DEF OthersOK
<1>3. seen \in SUBSET Nat /\ IsFiniteSet(seen)
  BY <1>0, <1>2, FS_AddElement DEF ViewerOK
<1> HIDE DEF seen
<1>4. frozen' \subseteq Nat /\ IsFiniteSet(frozen')
  BY <1>1, <1>2, <1>3, PrunedTicks
<1>5. episodes \in SUBSET Nat /\ lastSeek \in Nat \cup {Never}
  BY <1>0 DEF StallsOK
<1>6. episodes' \subseteq Nat /\ IsFiniteSet(episodes')
  BY <1>0, <1>1, <1>2, <1>5, PrunedTicks
<1>7. lastSeek' \in Nat \cup {Never}
  BY <1>1, <1>2, <1>5, Remembered
<1>8. StallsOK' /\ ViewerOK'
  BY <1>0, <1>1, <1>4, <1>6, <1>7 DEF StallsOK, ViewerOK
<1>9. PropsOK' /\ PlayerOK' /\ SamplingOK' /\ FactsOK' /\ OthersOK'
  BY <1>0, <1>1, <1>2 DEF PropsOK, PlayerOK, SamplingOK, FactsOK, OthersOK
<1> QED
  BY <1>4, <1>6, <1>8, <1>9, ShapeNext

LEMMA ShapeStutters == Shape /\ UNCHANGED vars => Shape'
<1> SUFFICES ASSUME Shape, UNCHANGED vars PROVE Shape'
  OBVIOUS
<1>1. UNCHANGED <<now, camera, chunk, quality, scrubbing, coverage, seeded,
                  autoLow, rendered, wanted, source, loaded, startupTimer,
                  waitingSince, open, episodes, stallTimer, lastSeek, lowSamples,
                  armed, probes, mainUnplayable, holdLow, estimate, mainBitrate,
                  device, freeze, frozen>>
  BY DEF vars, props, player, stalls, sampling, facts, viewer
<1> QED
  BY <1>1 DEF Shape, TypeOK, Finite

LEMMA ShapeStep == Shape /\ [Next]_vars => Shape'
  BY ShapeRender, ShapeSignal, ShapeSeed, ShapeSampleLow, ShapeSampleMain,
     ShapeTick, ShapeStutters DEF Next, Renders

LEMMA ShapeAlways == Spec => []Shape
  BY ShapeInit, ShapeStep, PTL DEF Spec

(* The state of the player and of the governor keeps the types the code    *)
(* gives it, whatever the device, the recordings and the budgets: the      *)
(* sample counters stay below the numbers they count up to.                *)
THEOREM Types == Spec => []TypeOK
<1>1. Shape => TypeOK
  BY DEF Shape
<1> QED
  BY <1>1, ShapeAlways, PTL

-----------------------------------------------------------------------------
(* What clears autoLow *)

(* autoLow is cleared by a change of quality or camera, at a chunk boundary *)
(* and by the probe, and by nothing else.                                  *)
LEMMA WhatReturns ==
    ASSUME Shape, Next, autoLow, ~autoLow'
    PROVE  \/ \E q \in Pins : SetQuality(q)
           \/ \E c \in Cameras : SwitchCamera(c)
           \/ \E k \in Chunks : PlayChunk(k)
           \/ \E est \in Rates : SampleLow(est)
<1>1. CASE Commit \/ CoverageArrives \/ Scrub \/ Load \/ Freeze \/ Resume \/ Seek
           \/ Tick
  BY <1>1 DEF Commit, CoverageArrives, Scrub, Load, Freeze, Resume, Seek, Tick
<1>2. CASE Seed
  <2>1. autoLow'
    BY <1>2, Zenon DEF Seed
  <2> QED
    BY <2>1
<1>3. CASE FatalNetworkError \/ FatalCodecError \/ StallTimerFires
           \/ StartupTimerFires
  BY <1>3 DEF FatalNetworkError, FatalCodecError, StallTimerFires,
              StartupTimerFires, TriggerDownswitch, Refused
<1>4. ASSUME NEW est \in Rates, NEW level \in {0, Bitrate[camera]},
             SampleMain(est, level)
      PROVE  FALSE
  BY <1>4, SampleMainDoes DEF TriggerDownswitch
<1> QED
  BY <1>1, <1>2, <1>3, <1>4 DEF Next

(* No step that leaves the original stream undecodable ends the low        *)
(* quality.                                                                *)
LEMMA ReturnOfPlayable ==
    Shape /\ Next /\ mainUnplayable /\ mainUnplayable' /\ autoLow => autoLow'
<1> SUFFICES ASSUME Shape, Next, mainUnplayable, mainUnplayable', autoLow, ~autoLow'
             PROVE  FALSE
  OBVIOUS
<1>1. ASSUME NEW q \in Pins, SetQuality(q)
      PROVE  FALSE
  BY <1>1 DEF SetQuality
<1>2. ASSUME NEW c \in Cameras, SwitchCamera(c)
      PROVE  FALSE
  BY <1>2 DEF SwitchCamera
<1>3. ASSUME NEW k \in Chunks, PlayChunk(k)
      PROVE  FALSE
  BY <1>3 DEF PlayChunk, ShouldRetryMain
<1>4. ASSUME NEW est \in Rates, SampleLow(est)
      PROVE  FALSE
  BY <1>4 DEF SampleLow
<1> QED
  BY <1>1, <1>2, <1>3, <1>4, WhatReturns

(* An original stream known to be undecodable is played no more in auto:   *)
(* no pin, chunk boundary, probe or reset brings it back                   *)
(* (AutoQualityGovernor.ts:94).                                            *)
THEOREM LowForGood == Spec => UndecodableStaysLow
<1>1. Shape /\ [Next]_vars
        => [mainUnplayable /\ mainUnplayable' /\ autoLow => autoLow']_vars
  BY ReturnOfPlayable
<1> QED
  BY <1>1, ShapeAlways, PTL DEF Spec, UndecodableStaysLow

(* What ends the low quality of the same camera and setting has looked at  *)
(* the throughput.                                                         *)
LEMMA ReturnIsEarned ==
    Shape /\ Next /\ autoLow /\ ~autoLow' /\ quality' = quality /\ camera' = camera
      => /\ ~holdLow /\ ~mainUnplayable
         /\ estimate' # 0 /\ mainBitrate # 0 => 2 * estimate' > 3 * mainBitrate
<1> SUFFICES ASSUME Shape, Next, autoLow, ~autoLow', quality' = quality,
                    camera' = camera
             PROVE  /\ ~holdLow /\ ~mainUnplayable
                    /\ estimate' # 0 /\ mainBitrate # 0
                         => 2 * estimate' > 3 * mainBitrate
  OBVIOUS
<1>1. ~\E q \in Pins : SetQuality(q)
  BY DEF SetQuality
<1>2. ~\E c \in Cameras : SwitchCamera(c)
  BY DEF SwitchCamera
<1>3. ASSUME NEW k \in Chunks, PlayChunk(k)
      PROVE  /\ ~holdLow /\ ~mainUnplayable
             /\ estimate' # 0 /\ mainBitrate # 0
                  => 2 * estimate' > 3 * mainBitrate
  <2>1. estimate' = estimate /\ mainBitrate' = mainBitrate
    BY <1>3 DEF PlayChunk, facts
  <2>2. ShouldRetryMain
    BY <1>3 DEF PlayChunk
  <2> QED
    BY <2>1, <2>2 DEF ShouldRetryMain
<1>4. ASSUME NEW est \in Rates, SampleLow(est)
      PROVE  /\ ~holdLow /\ ~mainUnplayable
             /\ 2 * estimate' > 3 * mainBitrate
  BY <1>4 DEF SampleLow
<1> QED
  BY <1>1, <1>2, <1>3, <1>4, WhatReturns

(* Playback returns to the original by itself only when data saver does    *)
(* not hold it low, the stream is not known to be undecodable, and the     *)
(* throughput exceeds the bitrate by half where both are known             *)
(* (record.md:383).                                                        *)
THEOREM ReturnsWhenFast == Spec => AutomaticReturn
<1>1. Shape /\ [Next]_vars
        => [ autoLow /\ ~autoLow' /\ quality' = quality /\ camera' = camera =>
               /\ ~holdLow /\ ~mainUnplayable
               /\ estimate' # 0 /\ mainBitrate # 0 =>
                      2 * estimate' > 3 * mainBitrate ]_vars
  BY ReturnIsEarned
<1> QED
  BY <1>1, ShapeAlways, PTL DEF Spec, AutomaticReturn

-----------------------------------------------------------------------------
(* The clock *)

(* No timer is overdue: nothing waits longer than its timer says. *)
NotOverdue ==
    /\ stallTimer # Never => now <= stallTimer
    /\ startupTimer # Never => now <= startupTimer

(* What a step other than a tick does to the ticks and to the timers. *)
BetweenTicks ==
    /\ now' = now
    /\ frozen' \subseteq frozen
    /\ \A s \in episodes' : s \in episodes \/ (s >= now - StallWindow /\ s < now)
    /\ \/ stallTimer' \in {stallTimer, Never}
       \/ stallTimer' \in Nat /\ stallTimer' >= now
    /\ startupTimer' \in {startupTimer, Never, now + Startup}

(* A render adds no frozen tick, and keeps, starts or stops the timer of   *)
(* the first frame.                                                        *)
LEMMA TimersOfRender ==
    ASSUME Shape, NEW cam \in Cameras, NEW k \in Chunks, NEW known \in BOOLEAN,
           NEW q \in Qualities, NEW scrub \in BOOLEAN, NEW reset \in BOOLEAN,
           Render(cam, k, known, q, scrub, reset)
    PROVE  /\ frozen' \subseteq frozen
           /\ startupTimer' \in {startupTimer, Never, now + Startup}
<1>1. frozen' \subseteq frozen
  BY ShapeParts, Rendered
<1>2. startupTimer' \in {startupTimer, Never, now + Startup}
  BY DEF Render
<1> QED
  BY <1>1, <1>2

(* Nothing but the clock adds a frozen tick or moves a timer into the      *)
(* past: a render does not,                                                *)
LEMMA RenderBetweenTicks ==
    Shape /\ Renders => BetweenTicks
<1> SUFFICES ASSUME Shape, Renders
             PROVE  BetweenTicks
  OBVIOUS
<1>0. PropsOK /\ StallsOK /\ OthersOK /\ IsFiniteSet(episodes)
  BY ShapeParts
<1>a. /\ camera \in Cameras /\ chunk \in Chunks /\ coverage \in BOOLEAN
      /\ quality \in Qualities /\ scrubbing \in BOOLEAN
  BY <1>0 DEF PropsOK
<1>1. CASE Commit
  <2>1. Render(camera, chunk, coverage, quality, scrubbing, FALSE)
    BY <1>1 DEF Commit
  <2>2. /\ frozen' \subseteq frozen
        /\ startupTimer' \in {startupTimer, Never, now + Startup}
    BY <1>a, <2>1, TimersOfRender
  <2> QED
    BY <1>1, <2>2 DEF Commit, BetweenTicks, stalls
<1>2. CASE CoverageArrives
  <2>1. Render(camera, chunk, TRUE, quality, scrubbing, FALSE)
    BY <1>2 DEF CoverageArrives
  <2>2. /\ frozen' \subseteq frozen
        /\ startupTimer' \in {startupTimer, Never, now + Startup}
    BY <1>a, <2>1, TimersOfRender
  <2> QED
    BY <1>2, <2>2 DEF CoverageArrives, BetweenTicks, stalls
<1>3. ASSUME NEW q \in Pins, SetQuality(q)
      PROVE  BetweenTicks
  <2>1. /\ Render(camera, chunk, coverage, q, scrubbing, TRUE) /\ q \in Qualities
    BY <1>3, BudgetAssumption DEF SetQuality
  <2>2. /\ frozen' \subseteq frozen
        /\ startupTimer' \in {startupTimer, Never, now + Startup}
    BY <1>a, <2>1, TimersOfRender
  <2> QED
    BY <1>3, <2>2 DEF SetQuality, BetweenTicks, ResetStallHistory
<1>4. ASSUME NEW c \in Cameras, SwitchCamera(c)
      PROVE  BetweenTicks
  <2>1. Render(c, chunk, FALSE, quality, scrubbing, TRUE)
    BY <1>4 DEF SwitchCamera
  <2>2. /\ frozen' \subseteq frozen
        /\ startupTimer' \in {startupTimer, Never, now + Startup}
    BY <1>a, <2>1, TimersOfRender
  <2> QED
    BY <1>4, <2>2 DEF SwitchCamera, BetweenTicks, ResetStallHistory
<1>5. ASSUME NEW k \in Chunks, PlayChunk(k)
      PROVE  BetweenTicks
  <2>1. Render(camera, k, FALSE, quality, scrubbing, FALSE)
    BY <1>5 DEF PlayChunk
  <2>2. /\ frozen' \subseteq frozen
        /\ startupTimer' \in {startupTimer, Never, now + Startup}
    BY <1>a, <2>1, TimersOfRender
  <2> QED
    BY <1>5, <2>2 DEF PlayChunk, BetweenTicks, stalls
<1>6. CASE Scrub
  <2>1. /\ Render(camera, chunk, coverage, quality, scrubbing', FALSE)
        /\ scrubbing' \in BOOLEAN
    BY <1>6 DEF Scrub
  <2>2. /\ frozen' \subseteq frozen
        /\ startupTimer' \in {startupTimer, Never, now + Startup}
    BY <1>a, <2>1, TimersOfRender
  <2>3. now' = now /\ lastSeek' = lastSeek
    BY <1>6 DEF Scrub
  <2>4. StallEnded \/ UNCHANGED <<open, episodes, stallTimer>>
    BY <1>6 DEF Scrub
  <2>5. StallEnded => stallTimer' \in {stallTimer, Never}
    BY DEF StallEnded
  <2>6. StallEnded =>
          \A s \in episodes' : s \in episodes \/ (s >= now - StallWindow /\ s < now)
    BY <1>0, <2>3, StallEnds
  <2> QED
    BY <2>2, <2>3, <2>4, <2>5, <2>6 DEF BetweenTicks
<1> QED
  BY <1>1, <1>2, <1>3, <1>4, <1>5, <1>6 DEF Renders

(* nor does a signal.                                                      *)
LEMMA SignalBetweenTicks ==
    Shape /\ [Next]_vars /\ ~Tick => BetweenTicks
<1> SUFFICES ASSUME Shape, [Next]_vars, ~Tick
             PROVE  BetweenTicks
  OBVIOUS
<1>0. PropsOK /\ StallsOK /\ OthersOK /\ IsFiniteSet(episodes)
  BY ShapeParts
<1>1. CASE Load \/ Resume
  <2>1. /\ now' = now /\ lastSeek' = lastSeek /\ frozen' = frozen
        /\ startupTimer' \in {startupTimer, Never}
        /\ StallEnded
    BY <1>1 DEF Load, Resume, player, viewer
  <2>2. stallTimer' \in {stallTimer, Never}
    BY <2>1 DEF StallEnded
  <2>3. \A s \in episodes' : s \in episodes \/ (s >= now - StallWindow /\ s < now)
    BY <1>0, <2>1, StallEnds
  <2> QED
    BY <2>1, <2>2, <2>3 DEF BetweenTicks
<1>2. CASE Freeze
  <2>1. /\ now' = now /\ lastSeek' = lastSeek /\ frozen' = frozen
        /\ startupTimer' = startupTimer /\ episodes' = episodes
        /\ StallStarted
    BY <1>2 DEF Freeze, player
  <2>2. CASE open = NoFreeze
    <3>1. stallTimer' \in Nat /\ stallTimer' >= now
      BY <1>0, <2>1, <2>2, StallStarts
    <3> QED
      BY <2>1, <3>1 DEF BetweenTicks
  <2>3. CASE open # NoFreeze
    BY <2>1, <2>3 DEF BetweenTicks, StallStarted
  <2> QED
    BY <2>2, <2>3
<1>3. CASE Seek \/ Seed
  BY <1>3 DEF Seek, Seed, BetweenTicks, player, stalls, viewer
<1>4. CASE FatalNetworkError \/ FatalCodecError \/ StallTimerFires
           \/ StartupTimerFires
  <2>1. /\ now' = now /\ frozen' = frozen
        /\ \/ TriggerDownswitch
           \/ /\ startupTimer' \in {startupTimer, Never}
              /\ stallTimer' \in {stallTimer, Never}
              /\ episodes' = episodes
    BY <1>4
       DEF FatalNetworkError, FatalCodecError, StallTimerFires, StartupTimerFires,
           Refused, viewer
  <2> QED
    BY <2>1 DEF BetweenTicks, TriggerDownswitch, ResetStallHistory
<1>5. ASSUME NEW est \in Rates, SampleLow(est)
      PROVE  BetweenTicks
  BY <1>5 DEF SampleLow, BetweenTicks, player, stalls, viewer
<1>6. ASSUME NEW est \in Rates, NEW level \in {0, Bitrate[camera]},
             SampleMain(est, level)
      PROVE  BetweenTicks
  BY <1>6, SampleMainDoes DEF BetweenTicks, TriggerDownswitch, ResetStallHistory
<1>7. CASE UNCHANGED vars
  BY <1>7 DEF vars, BetweenTicks, player, stalls, viewer
<1> QED
  BY <1>1, <1>2, <1>3, <1>4, <1>5, <1>6, <1>7, RenderBetweenTicks DEF Next, Renders

(* A tick prunes the window and adds itself when the picture is frozen.    *)
LEMMA TickTicks ==
    ASSUME Shape, Tick
    PROVE  /\ now \in Nat /\ now' = now + 1
           /\ episodes' \subseteq episodes
           /\ Cardinality(episodes') <= Cardinality(episodes)
           /\ Cardinality(episodes') \in Nat /\ Cardinality(episodes) \in Nat
           /\ \A s \in episodes : s \in episodes' <=> s >= now' - StallWindow
           /\ \A s \in frozen' :
                /\ s \in Nat /\ s >= now' - StallWindow
                /\ \/ s \in frozen
                   \/ freeze # NoFreeze /\ ~freeze.graced /\ s = now
<1>0. /\ StallsOK /\ ViewerOK /\ OthersOK
      /\ IsFiniteSet(episodes) /\ IsFiniteSet(frozen)
  BY ShapeParts
<1> DEFINE seen == IF freeze # NoFreeze /\ ~freeze.graced
                     THEN frozen \cup {now} ELSE frozen
<1>1. /\ now' = now + 1
      /\ episodes' = Pruned(episodes, now')
      /\ frozen' = Pruned(seen, now')
  BY DEF Tick
<1>2. now \in Nat /\ now' \in Nat
  BY <1>0, <1>1, Now
<1>3. seen \in SUBSET Nat /\ episodes \in SUBSET Nat
  BY <1>0, <1>2 DEF ViewerOK, StallsOK
<1>4. \A s \in seen : s \in frozen
                        \/ (freeze # NoFreeze /\ ~freeze.graced /\ s = now)
  OBVIOUS
<1> HIDE DEF seen
<1>5. \A s \in frozen' : s \in seen /\ s >= now' - StallWindow
  BY <1>1 DEF Pruned
<1>6. /\ episodes' \subseteq episodes
      /\ Cardinality(episodes') <= Cardinality(episodes)
      /\ Cardinality(episodes') \in Nat
      /\ \A s \in episodes : s \in episodes' <=> s >= now' - StallWindow
  BY <1>0, <1>1, <1>2, <1>3, PrunedTicks
<1>7. Cardinality(episodes) \in Nat
  BY <1>0, FS_CardinalityType
<1> QED
  BY <1>1, <1>2, <1>3, <1>4, <1>5, <1>6, <1>7

(* The ticks stay in the window and the timers ahead of the clock.         *)
LEMMA ClockStep ==
    Shape /\ InWindow /\ NotOverdue /\ [Next]_vars => InWindow' /\ NotOverdue'
<1> SUFFICES ASSUME Shape, InWindow, NotOverdue, [Next]_vars
             PROVE  InWindow' /\ NotOverdue'
  OBVIOUS
<1>0. PlayerOK /\ StallsOK /\ OthersOK
  BY ShapeParts
<1>1. /\ now \in Nat /\ Startup \in Nat /\ StallWindow \in Nat
      /\ stallTimer \in Nat \cup {Never} /\ startupTimer \in Nat \cup {Never}
  BY <1>0, Now, Constants DEF PlayerOK, StallsOK
<1>2. CASE Tick
  <2>1. /\ now' = now + 1
        /\ episodes' \subseteq episodes
        /\ \A s \in episodes : s \in episodes' <=> s >= now' - StallWindow
        /\ \A s \in frozen' : /\ s >= now' - StallWindow
                              /\ s \in frozen \/ s = now
    BY <1>2, TickTicks
  <2>2. episodes \subseteq Nat /\ frozen \subseteq Nat
    BY ShapeParts DEF StallsOK, ViewerOK
  <2>3. InWindow'
    BY <1>1, <2>1, <2>2 DEF InWindow
  <2>4. /\ ~Due(stallTimer) /\ ~Due(startupTimer)
        /\ stallTimer' = stallTimer /\ startupTimer' = startupTimer
    BY <1>2 DEF Tick, player
  <2>5. NotOverdue'
    BY <1>1, <2>1, <2>4 DEF NotOverdue, Due
  <2> QED
    BY <2>3, <2>5
<1>3. CASE ~Tick
  <2>1. BetweenTicks
    BY <1>3, SignalBetweenTicks
  <2>2. InWindow'
    BY <2>1 DEF BetweenTicks, InWindow
  <2>3. NotOverdue'
    BY <1>1, <2>1 DEF BetweenTicks, NotOverdue, Never
  <2> QED
    BY <2>2, <2>3
<1> QED
  BY <1>2, <1>3

-----------------------------------------------------------------------------
(* The governor sees what the viewer sees *)

ViewerFollows ==
    /\ freeze # NoFreeze => loaded /\ ~scrubbing
    /\ loaded /\ freeze = NoFreeze => open = NoFreeze
    /\ loaded \/ scrubbing => waitingSince = Never
    /\ open # NoFreeze => open.start <= now

(* A render ends a freeze or leaves it as it is, and starts none.          *)
LEMMA RenderShows ==
    ASSUME Shape, ViewerFollows, NEW cam, NEW k, NEW known, NEW q,
           NEW scrub \in BOOLEAN, NEW reset,
           Render(cam, k, known, q, scrub, reset)
    PROVE  /\ freeze' # NoFreeze => freeze' = freeze /\ loaded' /\ ~scrub
           /\ loaded' => loaded
           /\ loaded' \/ scrub => waitingSince' = Never
           /\ loaded' /\ freeze' = NoFreeze =>
                freeze = NoFreeze \/ (scrub /\ ~scrubbing)
<1>0. scrubbing \in BOOLEAN /\ loaded \in BOOLEAN
  BY ShapeParts DEF PropsOK, PlayerOK
<1>1. CASE wanted # source
  <2>1. /\ loaded' = FALSE /\ freeze' = NoFreeze
        /\ waitingSince' = IF wanted # NoSource /\ ~scrub THEN now ELSE Never
    BY <1>0, <1>1 DEF Render, Reloads
  <2> QED
    BY <2>1
<1>2. CASE wanted = source
  <2>1. loaded' = loaded
    BY <1>0, <1>2 DEF Render
  <2>2. \/ freeze' = NoFreeze /\ scrub /\ ~scrubbing
        \/ freeze' = freeze /\ (~scrub \/ scrubbing)
    BY <1>0, <1>2 DEF Render, viewer
  <2>3. scrub => waitingSince' = Never
    BY <1>0, <1>2 DEF Render, Reloads, ViewerFollows
  <2>4. loaded => waitingSince' = waitingSince
    BY <1>0, <1>2 DEF Render, Reloads
  <2> QED
    BY <2>1, <2>2, <2>3, <2>4 DEF ViewerFollows
<1> QED
  BY <1>1, <1>2

(* The governor follows the viewer through renders                         *)
LEMMA ViewerAfterRender ==
    Shape /\ ViewerFollows /\ Renders => ViewerFollows'
<1> SUFFICES ASSUME Shape, ViewerFollows, Renders
             PROVE  ViewerFollows'
  OBVIOUS
<1>0. scrubbing \in BOOLEAN
  BY ShapeParts DEF PropsOK
<1>1. ASSUME NEW cam, NEW k, NEW known, NEW q, NEW reset,
             Render(cam, k, known, q, scrubbing, reset),
             scrubbing' = scrubbing, now' = now,
             open' \in {open, NoFreeze}
      PROVE  ViewerFollows'
  <2>1. /\ freeze' # NoFreeze => freeze' = freeze /\ loaded' /\ ~scrubbing
        /\ loaded' => loaded
        /\ loaded' \/ scrubbing => waitingSince' = Never
        /\ loaded' /\ freeze' = NoFreeze => freeze = NoFreeze
    BY <1>0, <1>1, RenderShows
  <2> QED
    BY <1>1, <2>1 DEF ViewerFollows
<1>2. CASE Commit
  <2>1. /\ Render(camera, chunk, coverage, quality, scrubbing, FALSE)
        /\ scrubbing' = scrubbing /\ now' = now /\ open' = open
    BY <1>2 DEF Commit, props, stalls
  <2> QED
    BY <1>1, <2>1
<1>3. CASE CoverageArrives
  <2>1. /\ Render(camera, chunk, TRUE, quality, scrubbing, FALSE)
        /\ scrubbing' = scrubbing /\ now' = now /\ open' = open
    BY <1>3 DEF CoverageArrives, stalls
  <2> QED
    BY <1>1, <2>1
<1>4. ASSUME NEW q \in Pins, SetQuality(q)
      PROVE  ViewerFollows'
  <2>1. /\ Render(camera, chunk, coverage, q, scrubbing, TRUE)
        /\ scrubbing' = scrubbing /\ now' = now /\ open' = NoFreeze
    BY <1>4 DEF SetQuality, ResetStallHistory
  <2> QED
    BY <1>1, <2>1
<1>5. ASSUME NEW c \in Cameras, SwitchCamera(c)
      PROVE  ViewerFollows'
  <2>1. /\ Render(c, chunk, FALSE, quality, scrubbing, TRUE)
        /\ scrubbing' = scrubbing /\ now' = now /\ open' = NoFreeze
    BY <1>5 DEF SwitchCamera, ResetStallHistory
  <2> QED
    BY <1>1, <2>1
<1>6. ASSUME NEW k \in Chunks, PlayChunk(k)
      PROVE  ViewerFollows'
  <2>1. /\ Render(camera, k, FALSE, quality, scrubbing, FALSE)
        /\ scrubbing' = scrubbing /\ now' = now /\ open' = open
    BY <1>6 DEF PlayChunk, stalls
  <2> QED
    BY <1>1, <2>1
<1>7. CASE Scrub
  <2>1. /\ Render(camera, chunk, coverage, quality, scrubbing', FALSE)
        /\ scrubbing' = (~scrubbing) /\ scrubbing' \in BOOLEAN
        /\ now' = now
    BY <1>7 DEF Scrub
  <2>2. /\ freeze' # NoFreeze => freeze' = freeze /\ loaded' /\ ~scrubbing'
        /\ loaded' => loaded
        /\ loaded' \/ scrubbing' => waitingSince' = Never
        /\ loaded' /\ freeze' = NoFreeze =>
             freeze = NoFreeze \/ (scrubbing' /\ ~scrubbing)
    BY <2>1, RenderShows
  <2>3. CASE scrubbing'
    <3>1. open' = NoFreeze
      BY <1>7, <2>3 DEF Scrub, StallEnded
    <3> QED
      BY <2>2, <3>1 DEF ViewerFollows
  <2>4. CASE ~scrubbing'
    <3>1. open' = open
      BY <1>7, <2>4 DEF Scrub
    <3> QED
      BY <2>1, <2>2, <2>4, <3>1 DEF ViewerFollows
  <2> QED
    BY <2>3, <2>4
<1> QED
  BY <1>2, <1>3, <1>4, <1>5, <1>6, <1>7 DEF Renders

(* and through every step.                                                 *)
LEMMA ViewerStep ==
    Shape /\ ViewerFollows /\ [Next]_vars => ViewerFollows'
<1> SUFFICES ASSUME Shape, ViewerFollows, [Next]_vars
             PROVE  ViewerFollows'
  OBVIOUS
<1>0. StallsOK /\ OthersOK /\ IsFiniteSet(episodes) /\ now \in Nat
  BY ShapeParts, Now
<1>1. CASE Load
  <2>1. /\ loaded' = TRUE /\ waitingSince' = Never /\ ~loaded
        /\ UNCHANGED <<freeze, scrubbing>>
        /\ StallEnded
    BY <1>1 DEF Load, viewer, props
  <2>2. open' = NoFreeze
    BY <2>1 DEF StallEnded
  <2> QED
    BY <2>1, <2>2 DEF ViewerFollows
<1>2. CASE Freeze
  <2>1. /\ loaded /\ ~scrubbing /\ freeze = NoFreeze
        /\ freeze' = [start |-> now, graced |-> Forget(lastSeek, now) # Never]
        /\ UNCHANGED <<scrubbing, loaded, waitingSince, now>>
        /\ StallStarted
    BY <1>2 DEF Freeze, props, player
  <2>2. freeze' \in Freezes
    BY <1>0, <2>1 DEF Freezes
  <2>3. open = NoFreeze
    BY <2>1 DEF ViewerFollows
  <2>4. open' = freeze' /\ open'.start = now
    BY <2>1, <2>3 DEF StallStarted
  <2> QED
    BY <1>0, <2>1, <2>2, <2>4, RecordingsAssumption DEF ViewerFollows
<1>3. CASE Resume
  <2>1. /\ freeze' = NoFreeze /\ StallEnded
        /\ UNCHANGED <<scrubbing, loaded, waitingSince>>
    BY <1>3 DEF Resume, props, player
  <2>2. open' = NoFreeze
    BY <2>1 DEF StallEnded
  <2> QED
    BY <2>1, <2>2 DEF ViewerFollows
<1>4. CASE Seek \/ Seed
  BY <1>4 DEF Seek, Seed, ViewerFollows, player, stalls, viewer, props
<1>5. CASE FatalNetworkError \/ FatalCodecError \/ StallTimerFires
           \/ StartupTimerFires
  <2>1. /\ UNCHANGED <<now, freeze, scrubbing, loaded, waitingSince>>
        /\ open' \in {open, NoFreeze}
    BY <1>5
       DEF FatalNetworkError, FatalCodecError, StallTimerFires, StartupTimerFires,
           Refused, viewer, props, TriggerDownswitch, ResetStallHistory
  <2> QED
    BY <2>1 DEF ViewerFollows
<1>6. ASSUME NEW est \in Rates, SampleLow(est)
      PROVE  ViewerFollows'
  BY <1>6 DEF SampleLow, ViewerFollows, player, stalls, viewer, props
<1>7. ASSUME NEW est \in Rates, NEW level \in {0, Bitrate[camera]},
             SampleMain(est, level)
      PROVE  ViewerFollows'
  <2>1. /\ UNCHANGED <<now, freeze, scrubbing, loaded, waitingSince>>
        /\ open' \in {open, NoFreeze}
    BY <1>7, SampleMainDoes DEF TriggerDownswitch, ResetStallHistory
  <2> QED
    BY <2>1 DEF ViewerFollows
<1>8. CASE Tick
  <2>1. /\ UNCHANGED <<open, freeze, scrubbing, loaded, waitingSince>>
        /\ now' = now + 1
    BY <1>8 DEF Tick, props, player
  <2>2. open # NoFreeze => open.start \in Nat
    BY <1>0 DEF StallsOK, Freezes
  <2> QED
    BY <1>0, <2>1, <2>2 DEF ViewerFollows
<1>9. CASE UNCHANGED vars
  BY <1>9 DEF vars, ViewerFollows, player, stalls, viewer, props
<1> QED
  BY <1>1, <1>2, <1>3, <1>4, <1>5, <1>6, <1>7, <1>8, <1>9, ViewerAfterRender
     DEF Next, Renders

-----------------------------------------------------------------------------
(* Which stream is wanted *)

(* The source that the last render asked for is that of the hour on the    *)
(* screen; as long as its coverage is not known, no source of it has been  *)
(* asked for.                                                              *)
WantedFollows ==
    /\ coverage => wanted = SourceFor(camera, chunk, TRUE,
                                      EffectiveQuality(quality, rendered))
    /\ ~coverage => \A x \in {wanted, source} \ {NoSource} :
                      <<x.camera, x.chunk>> # <<camera, chunk>>

(* A step without a render leaves what was rendered.                       *)
LEMMA NothingRendered ==
    Shape /\ [Next]_vars /\ ~Renders =>
        UNCHANGED <<camera, chunk, coverage, quality, scrubbing, rendered,
                    wanted, source>>
<1> SUFFICES ASSUME Shape, [Next]_vars, ~Renders
             PROVE  UNCHANGED <<camera, chunk, coverage, quality, scrubbing,
                                rendered, wanted, source>>
  OBVIOUS
<1>1. CASE Load \/ Freeze \/ Resume \/ Seek \/ Seed \/ Tick
  BY <1>1 DEF Load, Freeze, Resume, Seek, Seed, Tick, props, player
<1>2. CASE FatalNetworkError \/ FatalCodecError \/ StallTimerFires
           \/ StartupTimerFires
  BY <1>2 DEF FatalNetworkError, FatalCodecError, StallTimerFires,
              StartupTimerFires, props
<1>3. ASSUME NEW est \in Rates, SampleLow(est)
      PROVE  UNCHANGED <<camera, chunk, coverage, quality, scrubbing, rendered,
                         wanted, source>>
  BY <1>3 DEF SampleLow, props, player
<1>4. ASSUME NEW est \in Rates, NEW level \in {0, Bitrate[camera]},
             SampleMain(est, level)
      PROVE  UNCHANGED <<camera, chunk, coverage, quality, scrubbing, rendered,
                         wanted, source>>
  BY <1>4, SampleMainDoes
<1>5. CASE UNCHANGED vars
  BY <1>5 DEF vars, props, player
<1> QED
  BY <1>1, <1>2, <1>3, <1>4, <1>5 DEF Next, Renders

(* The source that is asked for depends on the recordings only, once the   *)
(* coverage is known.                                                      *)
LEMMA Asked ==
    ASSUME NEW cam, NEW k, NEW route
    PROVE  /\ SourceFor(cam, k, FALSE, route) = wanted
           /\ SourceFor(cam, k, TRUE, route) =
                IF Recorded(route, cam, k)
                  THEN [camera |-> cam, chunk |-> k, route |-> route]
                  ELSE NoSource
           /\ SourceFor(cam, k, TRUE, route)' = SourceFor(cam, k, TRUE, route)
  BY DEF SourceFor

(* When nothing is being rendered, the source is that of the props. *)
LEMMA WhenSettled ==
    ASSUME Settled, WantedFollows
    PROVE  /\ coverage /\ source = wanted /\ (rendered <=> autoLow)
           /\ rendered = autoLow
           /\ source # NoSource =>
                /\ source = [camera |-> camera, chunk |-> chunk,
                             route |-> EffectiveQuality(quality, rendered)]
                /\ source.camera = camera /\ source.chunk = chunk
<1>1. coverage /\ source = wanted /\ rendered = autoLow
  BY DEF Settled, RenderDue
<1>2. source = IF Recorded(EffectiveQuality(quality, rendered), camera, chunk)
                 THEN [camera |-> camera, chunk |-> chunk,
                       route |-> EffectiveQuality(quality, rendered)]
                 ELSE NoSource
  BY <1>1, Asked DEF WantedFollows
<1> QED
  BY <1>1, <1>2

(* A viewer who waits for the coverage of his moves finds the source of    *)
(* the hour on the screen.                                                 *)
LEMMA WantedStep ==
    ~HastyMoves /\ Shape /\ WantedFollows /\ [Next]_vars => WantedFollows'
<1> SUFFICES ASSUME ~HastyMoves, Shape, WantedFollows, [Next]_vars
             PROVE  WantedFollows'
  OBVIOUS
<1>0. coverage \in BOOLEAN
  BY ShapeParts DEF PropsOK
<1>1. CASE ~Renders
  <2>1. UNCHANGED <<camera, chunk, coverage, quality, rendered, wanted, source>>
    BY <1>1, NothingRendered
  <2> QED
    BY <2>1 DEF WantedFollows, SourceFor
<1>2. ASSUME NEW known \in BOOLEAN, NEW q, NEW scrub, NEW reset,
             Render(camera, chunk, known, q, scrub, reset),
             camera' = camera, chunk' = chunk, coverage' = known, quality' = q,
             coverage => known
      PROVE  WantedFollows'
  <2>1. /\ rendered' = autoLow /\ source' = wanted
        /\ wanted' = SourceFor(camera, chunk, known, EffectiveQuality(q, autoLow))
    BY <1>2 DEF Render
  <2>2. CASE known
    <3>1. wanted' = SourceFor(camera, chunk, TRUE, EffectiveQuality(q, autoLow))
      BY <2>1, <2>2 DEF SourceFor
    <3> QED
      BY <1>2, <2>1, <2>2, <3>1 DEF WantedFollows, SourceFor, EffectiveQuality
  <2>3. CASE ~known
    <3>1. wanted' = wanted
      BY <2>1, <2>3 DEF SourceFor
    <3>2. ~coverage /\ ~coverage'
      BY <1>2, <2>3
    <3> QED
      BY <1>2, <2>1, <3>1, <3>2 DEF WantedFollows
  <2> QED
    BY <2>2, <2>3
<1>3. CASE Commit
  BY <1>0, <1>2, <1>3 DEF Commit, props
<1>4. CASE CoverageArrives
  <2>1. /\ Render(camera, chunk, TRUE, quality, scrubbing, FALSE)
        /\ camera' = camera /\ chunk' = chunk /\ coverage' = TRUE
        /\ quality' = quality
    BY <1>4 DEF CoverageArrives
  <2> QED
    BY <1>2, <2>1
<1>5. CASE Scrub
  <2>1. /\ Render(camera, chunk, coverage, quality, scrubbing', FALSE)
        /\ camera' = camera /\ chunk' = chunk /\ coverage' = coverage
        /\ quality' = quality
    BY <1>5 DEF Scrub
  <2> QED
    BY <1>0, <1>2, <2>1
<1>6. ASSUME NEW q \in Pins, SetQuality(q)
      PROVE  WantedFollows'
  <2>1. /\ Render(camera, chunk, coverage, q, scrubbing, TRUE)
        /\ camera' = camera /\ chunk' = chunk /\ coverage' = coverage
        /\ quality' = q
    BY <1>6 DEF SetQuality
  <2> QED
    BY <1>0, <1>2, <2>1
<1>7. ASSUME NEW c \in Cameras, SwitchCamera(c)
      PROVE  WantedFollows'
  <2>1. /\ Render(c, chunk, FALSE, quality, scrubbing, TRUE)
        /\ camera' = c /\ c # camera /\ chunk' = chunk /\ coverage' = FALSE
        /\ Settled
    BY <1>7 DEF SwitchCamera
  <2>2. source' = wanted /\ wanted' = wanted
    BY <2>1, Asked DEF Render
  <2>3. source = wanted /\ (source # NoSource => source.camera = camera)
    BY <2>1, WhenSettled
  <2> QED
    BY <2>1, <2>2, <2>3 DEF WantedFollows
<1>8. ASSUME NEW k \in Chunks, PlayChunk(k)
      PROVE  WantedFollows'
  <2>1. /\ Render(camera, k, FALSE, quality, scrubbing, FALSE)
        /\ chunk' = k /\ k # chunk /\ camera' = camera /\ coverage' = FALSE
        /\ Settled
    BY <1>8 DEF PlayChunk
  <2>2. source' = wanted /\ wanted' = wanted
    BY <2>1, Asked DEF Render
  <2>3. source = wanted /\ (source # NoSource => source.chunk = chunk)
    BY <2>1, WhenSettled
  <2> QED
    BY <2>1, <2>2, <2>3 DEF WantedFollows
<1> QED
  BY <1>1, <1>3, <1>4, <1>5, <1>6, <1>7, <1>8 DEF Renders

-----------------------------------------------------------------------------
(* The budgets *)

(* The original stream plays or loads in auto, and the low one is there to *)
(* replace it.                                                             *)
OnOriginal == CanDownswitch /\ source # NoSource /\ ~RenderDue

(* Then the timers guard what the viewer sees: a wait for the first frame  *)
(* has its timer, a freeze has one that leaves no more than its budget,    *)
(* every frozen tick is known to the governor as part of an episode or of  *)
(* the freeze that lasts, and what the timer leaves of that freeze fits    *)
(* into the window.                                                        *)
Guarded ==
    /\ waitingSince # Never => startupTimer = waitingSince + Startup
    /\ freeze # NoFreeze =>
         /\ open = freeze /\ stallTimer # Never
         /\ stallTimer <= freeze.start + (IF freeze.graced THEN GracedStall
                                                           ELSE SingleStall)
    /\ \A s \in frozen :
         \/ s \in episodes
         \/ freeze # NoFreeze /\ ~freeze.graced /\ s >= freeze.start
    /\ Cardinality(frozen) <= CumulativeStall
    /\ freeze # NoFreeze /\ ~freeze.graced =>
         \/ stallTimer = freeze.start
         \/ Cardinality(episodes) + (stallTimer - freeze.start)
              <= CumulativeStall

IInv ==
    /\ Shape /\ InWindow /\ NotOverdue /\ ViewerFollows /\ WantedFollows
    /\ OnOriginal => Guarded

(* A step that renders nothing and leaves autoLow alone enters nothing. *)
LEMMA StillOnOriginal ==
    UNCHANGED <<camera, chunk, coverage, quality, rendered, wanted, source>>
      /\ (autoLow' = autoLow \/ (autoLow => autoLow'))
      /\ Shape /\ Shape' /\ OnOriginal' => OnOriginal
<1> SUFFICES ASSUME UNCHANGED <<camera, chunk, coverage, quality, rendered,
                                wanted, source>>,
                    autoLow' = autoLow \/ (autoLow => autoLow'),
                    Shape, Shape', OnOriginal'
             PROVE  OnOriginal
  OBVIOUS
<1>0. autoLow \in BOOLEAN /\ autoLow' \in BOOLEAN /\ rendered \in BOOLEAN
  BY ShapeParts, ShapeNext DEF OthersOK, PlayerOK
<1>1. CanDownswitch /\ source # NoSource
  BY DEF OnOriginal, CanDownswitch, SubAvailable
<1>2. rendered' = autoLow' /\ ~rendered
  BY <1>1 DEF OnOriginal, RenderDue, CanDownswitch
<1>3. rendered = autoLow
  BY <1>0, <1>2
<1>4. ~RenderDue
  BY <1>3 DEF OnOriginal, RenderDue, SourceFor, EffectiveQuality
<1> QED
  BY <1>1, <1>4 DEF OnOriginal

(* A render that brings a new source starts everything anew. *)
LEMMA NewSource ==
    ASSUME Shape, NEW cam, NEW k, NEW known, NEW q, NEW scrub, NEW reset,
           Render(cam, k, known, q, scrub, reset), wanted # source
    PROVE  Guarded'
<1>1. now \in Nat /\ Startup \in Nat /\ CumulativeStall \in Nat
  BY ShapeParts, Now, Constants
<1>2. /\ freeze' = NoFreeze /\ frozen' = {}
      /\ \/ startupTimer' = now + Startup /\ waitingSince' = now
         \/ startupTimer' = Never /\ waitingSince' = Never
  BY DEF Render, Reloads
<1>3. Cardinality(frozen') = 0
  BY <1>2, FS_EmptySet
<1> QED
  BY <1>1, <1>2, <1>3 DEF Guarded

(* The original and the low stream of an hour are different sources, and   *)
(* in auto a recorded hour with a low stream has an original one.          *)
LEMMA Streams ==
    ASSUME SubAvailable
    PROVE  /\ SourceFor(camera, chunk, TRUE, "auto")
                = [camera |-> camera, chunk |-> chunk, route |-> "auto"]
           /\ SourceFor(camera, chunk, TRUE, "sub")
                = [camera |-> camera, chunk |-> chunk, route |-> "sub"]
  BY DEF SubAvailable, SourceFor, Recorded

(* A render that brings no new source does not lead to the original.       *)
LEMMA GuardedCommit == IInv /\ Commit /\ OnOriginal' => Guarded'
<1> SUFFICES ASSUME IInv, Commit, OnOriginal'
             PROVE  Guarded'
  OBVIOUS
<1>1. /\ Render(camera, chunk, coverage, quality, scrubbing, FALSE) /\ RenderDue
      /\ UNCHANGED <<camera, chunk, coverage, quality, autoLow>>
  BY DEF Commit, props
<1>2. CASE wanted # source
  BY <1>1, <1>2, NewSource DEF IInv
<1>3. CASE wanted = source
  <2>1. /\ rendered' = autoLow /\ source' = wanted
        /\ wanted' = SourceFor(camera, chunk, coverage,
                               EffectiveQuality(quality, autoLow))
    BY <1>1 DEF Render
  <2>2. /\ quality = "auto" /\ SubAvailable /\ ~autoLow /\ source' = wanted'
    BY <1>1, <2>1 DEF OnOriginal, CanDownswitch, SubAvailable, RenderDue
  <2>3. coverage = TRUE
    BY <2>2, ShapeParts DEF SubAvailable, IInv, PropsOK
  <2>4. wanted = SourceFor(camera, chunk, TRUE, EffectiveQuality("auto", rendered))
    BY <2>2, <2>3 DEF IInv, WantedFollows
  <2>5. wanted' = [camera |-> camera, chunk |-> chunk, route |-> "auto"]
    BY <2>1, <2>2, <2>3, Streams DEF EffectiveQuality
  <2>6. rendered
    BY <1>1, <1>3, <2>2, <2>3, <2>4, ShapeParts
       DEF RenderDue, IInv, PlayerOK, OthersOK
  <2>7. wanted = [camera |-> camera, chunk |-> chunk, route |-> "sub"]
    BY <2>2, <2>4, <2>6, Streams DEF EffectiveQuality
  <2>8. wanted.route = "sub" /\ wanted'.route = "auto"
    BY <2>5, <2>7
  <2> QED
    BY <2>1, <2>2, <2>8
<1> QED
  BY <1>2, <1>3

(* The ways into OnOriginal: a coverage that arrives leaves a render due,  *)
LEMMA GuardedCoverage == IInv /\ CoverageArrives => ~OnOriginal'
<1> SUFFICES ASSUME IInv, CoverageArrives, OnOriginal'
             PROVE  FALSE
  OBVIOUS
<1>1. /\ Render(camera, chunk, TRUE, quality, scrubbing, FALSE) /\ ~coverage
  BY DEF CoverageArrives
<1>2. /\ source' = wanted
      /\ wanted' = SourceFor(camera, chunk, TRUE, EffectiveQuality(quality, autoLow))
  BY <1>1 DEF Render
<1>3. source' = wanted' /\ source' # NoSource
  BY DEF OnOriginal, RenderDue
<1>4. wanted' = [camera |-> camera, chunk |-> chunk,
                 route |-> EffectiveQuality(quality, autoLow)]
  BY <1>2, <1>3, Asked
<1>5. wanted # NoSource /\ wanted = wanted'
  BY <1>2, <1>3
<1>6. wanted'.camera = camera /\ wanted'.chunk = chunk
  BY <1>4
<1>7. wanted.camera = camera /\ wanted.chunk = chunk
  BY <1>5, <1>6
<1> QED
  BY <1>1, <1>5, <1>7 DEF IInv, WantedFollows

(* and so does a pin,                                                      *)
LEMMA GuardedQuality ==
    ASSUME ~HastyMoves, IInv, NEW q \in Pins, SetQuality(q), OnOriginal'
    PROVE  FALSE
<1>1. /\ Render(camera, chunk, coverage, q, scrubbing, TRUE)
      /\ Settled /\ q # quality /\ quality' = q
      /\ UNCHANGED <<camera, chunk, coverage>>
  BY DEF SetQuality
<1>2. /\ coverage /\ source = wanted /\ rendered = autoLow
      /\ source # NoSource =>
            source = [camera |-> camera, chunk |-> chunk,
                      route |-> EffectiveQuality(quality, rendered)]
  BY <1>1, WhenSettled DEF IInv
<1>3. /\ rendered' = autoLow /\ source' = wanted
      /\ wanted' = SourceFor(camera, chunk, coverage, EffectiveQuality(q, autoLow))
  BY <1>1 DEF Render
<1>4. /\ q = "auto" /\ SubAvailable /\ ~autoLow
      /\ source' = wanted' /\ source' # NoSource
  BY <1>1, <1>3 DEF OnOriginal, CanDownswitch, SubAvailable, RenderDue
<1>5. coverage = TRUE
  BY <1>2, ShapeParts DEF IInv, PropsOK
<1>9. EffectiveQuality(q, autoLow) = "auto"
  BY <1>4 DEF EffectiveQuality
<1>10. wanted' = [camera |-> camera, chunk |-> chunk, route |-> "auto"]
  BY <1>3, <1>4, <1>5, <1>9, Streams
<1>6. wanted'.route = "auto"
  BY <1>10
<1>7. source = [camera |-> camera, chunk |-> chunk, route |-> quality]
  BY <1>2, <1>3, <1>4 DEF EffectiveQuality
<1>8. source.route = quality
  BY <1>7
<1> QED
  BY <1>1, <1>2, <1>3, <1>4, <1>6, <1>8

(* A stall that ends while the picture was frozen leaves all frozen ticks  *)
(* in the episodes.                                                        *)
LEMMA EpisodesHold ==
    ASSUME IInv, OnOriginal, StallEnded, lastSeek' = lastSeek,
           now' = now, frozen' = frozen, freeze' = NoFreeze,
           NEW s \in frozen'
    PROVE  s \in episodes'
<1>0. /\ StallsOK /\ OthersOK /\ ViewerOK /\ IsFiniteSet(episodes)
  BY ShapeParts DEF IInv
<1>1. s \in Nat /\ s >= now - StallWindow /\ s < now
  BY <1>0 DEF IInv, InWindow, ViewerOK
<1>2. Guarded
  BY DEF IInv
<1>3. CASE s \in episodes
  BY <1>0, <1>1, <1>3, StallEnds
<1>4. CASE freeze # NoFreeze /\ ~freeze.graced /\ s >= freeze.start
  <2>1. open = freeze
    BY <1>2, <1>4 DEF Guarded
  <2> QED
    BY <1>0, <1>1, <1>4, <2>1, StallEnds
<1> QED
  BY <1>2, <1>3, <1>4 DEF Guarded

(* A freeze that ends hands its ticks to the closed episodes.              *)
LEMMA GuardedEnd ==
    ASSUME IInv, OnOriginal, StallEnded, lastSeek' = lastSeek,
           now' = now, frozen' = frozen, freeze' = NoFreeze,
           waitingSince' # Never => startupTimer' = waitingSince' + Startup
    PROVE  Guarded'
<1>1. \A s \in frozen' : s \in episodes'
  BY EpisodesHold
<1>2. Cardinality(frozen') <= CumulativeStall
  BY DEF IInv, Guarded
<1> QED
  BY <1>1, <1>2 DEF Guarded

(* A step that leaves what is measured and what is seen alone.             *)
LEMMA GuardedSame ==
    IInv /\ OnOriginal
      /\ UNCHANGED <<waitingSince, startupTimer, freeze, open, stallTimer,
                     frozen, episodes>>
      => Guarded'
  BY DEF IInv, Guarded

(* and a scrub keeps what is on the screen guarded.                        *)
LEMMA GuardedScrub == ~HastyMoves /\ IInv /\ Scrub /\ OnOriginal' => Guarded'
<1> SUFFICES ASSUME ~HastyMoves, IInv, Scrub, OnOriginal'
             PROVE  Guarded'
  OBVIOUS
<1>1. /\ Render(camera, chunk, coverage, quality, scrubbing', FALSE)
      /\ Settled /\ scrubbing' = (~scrubbing)
      /\ UNCHANGED <<camera, chunk, coverage, quality, autoLow, now, lastSeek>>
  BY DEF Scrub
<1>2. /\ coverage /\ source = wanted /\ rendered = autoLow /\ ~RenderDue
  BY <1>1, WhenSettled DEF IInv, Settled
<1>3. source' = source /\ rendered' = rendered
  BY <1>1, <1>2 DEF Render
<1>4. OnOriginal
  BY <1>1, <1>2, <1>3 DEF OnOriginal, CanDownswitch, SubAvailable
<1>0. /\ scrubbing \in BOOLEAN /\ loaded \in BOOLEAN
      /\ ViewerFollows /\ Guarded /\ source # NoSource
  BY <1>4, ShapeParts DEF IInv, PropsOK, PlayerOK, OnOriginal
<1>5. now \in Nat /\ Startup \in Nat
  BY ShapeParts, Now, Constants DEF IInv
<1>6. CASE scrubbing'
  <2>1. /\ StallEnded /\ freeze' = NoFreeze /\ frozen' = frozen
    BY <1>0, <1>1, <1>2, <1>6 DEF Scrub, Render
  <2>2. waitingSince' = Never
    BY <1>0, <1>1, <1>2, <1>6 DEF Render, Reloads, ViewerFollows
  <2> QED
    BY <1>1, <1>4, <2>1, <2>2, GuardedEnd
<1>7. CASE ~scrubbing'
  <2>1. UNCHANGED <<open, episodes, stallTimer>>
    BY <1>7 DEF Scrub
  <2>2. UNCHANGED <<freeze, frozen>> /\ freeze = NoFreeze
    BY <1>0, <1>1, <1>2, <1>7 DEF Render, viewer, ViewerFollows
  <2>3. CASE loaded
    <3>1. waitingSince' = Never
      BY <1>0, <1>1, <1>2, <2>3 DEF Render, Reloads, ViewerFollows
    <3> QED
      BY <1>0, <2>1, <2>2, <3>1 DEF Guarded
  <2>4. CASE ~loaded
    <3>1. waitingSince' = now /\ startupTimer' = now + Startup
      BY <1>0, <1>1, <1>2, <1>7, <2>4 DEF Render, Reloads
    <3> QED
      BY <1>0, <2>1, <2>2, <3>1 DEF Guarded
  <2> QED
    BY <1>0, <2>3, <2>4
<1> QED
  BY <1>6, <1>7

(* A freeze that starts is given at most what the window still allows.     *)
LEMMA GuardedFreeze == IInv /\ Freeze /\ OnOriginal => Guarded'
<1> SUFFICES ASSUME IInv, Freeze, OnOriginal
             PROVE  Guarded'
  OBVIOUS
<1>0. /\ StallsOK /\ OthersOK /\ ViewerOK /\ IsFiniteSet(episodes)
      /\ Guarded /\ ViewerFollows /\ now \in Nat
      /\ SingleStall \in Nat /\ GracedStall \in Nat
  BY ShapeParts, Now, Constants DEF IInv
<1> DEFINE graced == Forget(lastSeek, now) # Never
<1>1. /\ loaded /\ freeze = NoFreeze /\ StallStarted
      /\ freeze' = [start |-> now, graced |-> graced]
      /\ UNCHANGED <<now, waitingSince, startupTimer, episodes, lastSeek, frozen>>
  BY DEF Freeze, player
<1>2. open = NoFreeze /\ waitingSince = Never
  BY <1>0, <1>1 DEF ViewerFollows
<1>3. /\ open' = [start |-> now, graced |-> graced]
      /\ stallTimer' \in Nat /\ stallTimer' >= now
      /\ graced => stallTimer' <= now + GracedStall
      /\ ~graced =>
           /\ stallTimer' <= now + SingleStall
           /\ \/ stallTimer' = now
              \/ WindowStall(now) + (stallTimer' - now) <= CumulativeStall
  BY <1>0, <1>1, <1>2, StallStarts
<1> HIDE DEF graced
<1>4. WindowStall(now) = Cardinality(episodes)
  <2>1. Pruned(episodes, now) = episodes
    BY DEF IInv, InWindow, Pruned
  <2> QED
    BY <2>1 DEF WindowStall
<1>5. freeze'.start = now /\ freeze'.graced = graced
  BY <1>1
<1>6. \A s \in frozen' : s \in episodes'
  BY <1>0, <1>1 DEF Guarded
<1>7. Cardinality(frozen') <= CumulativeStall
  BY <1>0, <1>1 DEF Guarded
<1>8. /\ open' = freeze' /\ stallTimer' # Never
      /\ stallTimer' <= freeze'.start + (IF freeze'.graced THEN GracedStall
                                                           ELSE SingleStall)
  BY <1>1, <1>3, <1>5 DEF Never
<1>9. ~freeze'.graced =>
        \/ stallTimer' = freeze'.start
        \/ Cardinality(episodes') + (stallTimer' - freeze'.start)
             <= CumulativeStall
  BY <1>1, <1>3, <1>4, <1>5
<1> QED
  BY <1>1, <1>2, <1>6, <1>7, <1>8, <1>9 DEF Guarded

(* The ticks of the window that are frozen, one more while a freeze lasts  *)
(* and its timer is not due.                                               *)
LEMMA GuardedTick == IInv /\ Tick /\ OnOriginal => Guarded'
<1> SUFFICES ASSUME IInv, Tick, OnOriginal
             PROVE  Guarded'
  OBVIOUS
<1>0. /\ StallsOK /\ OthersOK /\ ViewerOK
      /\ IsFiniteSet(episodes) /\ IsFiniteSet(frozen) /\ IsFiniteSet(frozen')
      /\ Guarded /\ ViewerFollows
      /\ CumulativeStall \in Nat
  BY ShapeParts, ShapeTick, ShapeNext, Constants DEF IInv
<1>1. UNCHANGED <<waitingSince, startupTimer, freeze, open, stallTimer>>
  BY DEF Tick, player
<1>2. /\ now \in Nat /\ now' = now + 1
      /\ episodes' \subseteq episodes
      /\ Cardinality(episodes') <= Cardinality(episodes)
      /\ Cardinality(episodes') \in Nat /\ Cardinality(episodes) \in Nat
      /\ \A s \in episodes : s \in episodes' <=> s >= now' - StallWindow
      /\ \A s \in frozen' :
           /\ s \in Nat /\ s >= now' - StallWindow
           /\ \/ s \in frozen
              \/ freeze # NoFreeze /\ ~freeze.graced /\ s = now
  BY TickTicks DEF IInv
<1>3. freeze # NoFreeze =>
        /\ open = freeze /\ freeze \in Freezes /\ freeze.start \in Nat
        /\ freeze.start <= now /\ stallTimer \in Nat
  BY <1>0 DEF Guarded, ViewerFollows, ViewerOK, StallsOK, Freezes
<1>4. \A s \in frozen' :
        \/ s \in episodes'
        \/ freeze # NoFreeze /\ ~freeze.graced /\ s >= freeze.start
  BY <1>0, <1>2, <1>3 DEF Guarded
<1>5. freeze # NoFreeze => stallTimer > now
  <2>1. ~Due(stallTimer)
    BY DEF Tick
  <2> QED
    BY <1>0, <1>2, <1>3, <2>1 DEF Due, Guarded
<1>6. Cardinality(frozen') <= CumulativeStall
  <2>1. CASE freeze # NoFreeze /\ ~freeze.graced
    <3> DEFINE lasting == freeze.start .. now
    <3>1. \A s \in frozen' : s \in Nat /\ s <= now
      <4>1. \A s \in frozen : s < now
        BY DEF IInv, InWindow
      <4> QED
        BY <1>0, <1>2, <4>1 DEF ViewerOK
    <3>2. frozen' \subseteq episodes \cup lasting
      BY <1>2, <1>3, <1>4, <2>1, <3>1
    <3>3. /\ IsFiniteSet(lasting)
          /\ Cardinality(lasting) = now - freeze.start + 1
      <4>1. freeze.start \in Int /\ now \in Int /\ ~(freeze.start > now)
        BY <1>2, <1>3, <2>1
      <4> QED
        BY <4>1, FS_Interval
    <3> HIDE DEF lasting
    <3>4. /\ IsFiniteSet(episodes \cup lasting)
          /\ Cardinality(episodes \cup lasting) =
               Cardinality(episodes) + Cardinality(lasting)
                 - Cardinality(episodes \cap lasting)
      BY <1>0, <3>3, FS_Union
    <3>5. IsFiniteSet(episodes \cap lasting)
      BY <1>0, FS_Intersection
    <3>6. Cardinality(episodes \cap lasting) \in Nat
      BY <3>5, FS_CardinalityType
    <3>7. frozen' \in SUBSET (episodes \cup lasting)
      BY <3>2
    <3>8. Cardinality(frozen') <= Cardinality(episodes \cup lasting)
      BY <3>4, <3>7, FS_Subset
    <3>9. Cardinality(frozen') \in Nat
      BY <1>0, FS_CardinalityType
    <3>10. stallTimer = freeze.start
             \/ Cardinality(episodes) + (stallTimer - freeze.start) <= CumulativeStall
      BY <1>0, <2>1 DEF Guarded
    <3> QED
      <4>1. /\ stallTimer \in Nat /\ freeze.start \in Nat /\ freeze.start <= now
            /\ stallTimer > now
        BY <1>3, <1>5, <2>1
      <4>2. Cardinality(episodes) + (stallTimer - freeze.start) <= CumulativeStall
        BY <1>2, <3>10, <4>1
      <4>3. Cardinality(frozen')
              <= Cardinality(episodes) + (now - freeze.start + 1)
        BY <1>2, <3>3, <3>4, <3>6, <3>8, <3>9, <4>1
      <4> QED
        BY <1>0, <1>2, <3>9, <4>1, <4>2, <4>3
  <2>2. CASE ~(freeze # NoFreeze /\ ~freeze.graced)
    <3>1. frozen' \in SUBSET frozen
      BY <1>2, <2>2
    <3>2. Cardinality(frozen') <= Cardinality(frozen)
      BY <1>0, <3>1, FS_Subset
    <3>3. Cardinality(frozen') \in Nat /\ Cardinality(frozen) \in Nat
      BY <1>0, FS_CardinalityType
    <3>4. Cardinality(frozen) <= CumulativeStall
      BY <1>0 DEF Guarded
    <3> QED
      BY <1>0, <3>2, <3>3, <3>4
  <2> QED
    BY <2>1, <2>2
<1>7. freeze # NoFreeze /\ ~freeze.graced =>
         \/ stallTimer = freeze.start
         \/ Cardinality(episodes') + (stallTimer - freeze.start)
              <= CumulativeStall
  BY <1>0, <1>2, <1>3 DEF Guarded
<1> QED
  BY <1>0, <1>1, <1>4, <1>6, <1>7 DEF Guarded

(* Every step into or within OnOriginal leaves it guarded.                 *)
LEMMA GuardedStep ==
    ~HastyMoves /\ IInv /\ Shape' /\ [Next]_vars /\ OnOriginal' => Guarded'
<1> SUFFICES ASSUME ~HastyMoves, IInv, Shape', [Next]_vars, OnOriginal'
             PROVE  Guarded'
  OBVIOUS
<1>1. CASE Renders
  <2>1. ~\E c \in Cameras : SwitchCamera(c)
    BY DEF SwitchCamera, OnOriginal, CanDownswitch, SubAvailable
  <2>2. ~\E k \in Chunks : PlayChunk(k)
    BY DEF PlayChunk, OnOriginal, CanDownswitch, SubAvailable
  <2>3. ~\E q \in Pins : SetQuality(q)
    BY GuardedQuality
  <2>4. Commit \/ CoverageArrives \/ Scrub
    BY <1>1, <2>1, <2>2, <2>3 DEF Renders
  <2> QED
    BY <2>4, GuardedCommit, GuardedCoverage, GuardedScrub
<1>2. CASE ~Renders
  <2>1. UNCHANGED <<camera, chunk, coverage, quality, scrubbing, rendered,
                    wanted, source>>
    BY <1>2, NothingRendered DEF IInv
  <2>2. (autoLow' = autoLow \/ (autoLow => autoLow')) => OnOriginal
    BY <2>1, StillOnOriginal DEF IInv
  <2>3. CanDownswitch
    BY <2>1 DEF OnOriginal, CanDownswitch, SubAvailable
  <2>4. rendered' = autoLow'
    BY DEF OnOriginal, RenderDue
  <2>5. ~autoLow' /\ ~rendered /\ CanDownswitch
    BY <2>1, <2>3, <2>4 DEF CanDownswitch
  <2>6. ~TriggerDownswitch /\ ~Refused
    BY <2>5 DEF TriggerDownswitch, Refused
  <2>7. CASE Load
    <3>1. /\ autoLow' = autoLow /\ StallEnded /\ ~loaded
          /\ waitingSince' = Never
          /\ UNCHANGED <<lastSeek, now, frozen, freeze>>
      BY <2>7 DEF Load, viewer
    <3>2. freeze' = NoFreeze
      BY <3>1 DEF IInv, ViewerFollows
    <3> QED
      BY <2>2, <3>1, <3>2, GuardedEnd
  <2>8. CASE Freeze
    <3>1. autoLow' = autoLow
      BY <2>8 DEF Freeze
    <3> QED
      BY <2>2, <2>8, <3>1, GuardedFreeze
  <2>9. CASE Resume
    <3>1. /\ autoLow' = autoLow /\ StallEnded /\ freeze' = NoFreeze
          /\ UNCHANGED <<lastSeek, now, frozen, waitingSince, startupTimer>>
      BY <2>9 DEF Resume, player
    <3>2. OnOriginal
      BY <2>2, <3>1
    <3>3. waitingSince' # Never => startupTimer' = waitingSince' + Startup
      BY <3>1, <3>2 DEF IInv, Guarded
    <3> QED
      BY <3>1, <3>2, <3>3, GuardedEnd
  <2>10. CASE Seek
    <3>1. /\ autoLow' = autoLow
          /\ UNCHANGED <<waitingSince, startupTimer, freeze, open, stallTimer,
                         frozen, episodes>>
      BY <2>10 DEF Seek, player, viewer
    <3> QED
      BY <2>2, <3>1, GuardedSame
  <2>11. CASE Seed
    <3>1. autoLow => autoLow'
      BY <2>11, Zenon DEF Seed
    <3>2. UNCHANGED <<waitingSince, startupTimer, freeze, open, stallTimer,
                      frozen, episodes>>
      BY <2>11 DEF Seed, player, viewer, stalls
    <3> QED
      BY <2>2, <3>1, <3>2, GuardedSame
  <2>12. CASE FatalNetworkError \/ FatalCodecError \/ StallTimerFires
              \/ StartupTimerFires
    BY <2>6, <2>12 DEF FatalNetworkError, FatalCodecError, StallTimerFires,
                       StartupTimerFires
  <2>13. ASSUME NEW est \in Rates, SampleLow(est)
         PROVE  FALSE
    BY <2>5, <2>13 DEF SampleLow, CanDownswitch, EffectiveQuality
  <2>14. ASSUME NEW est \in Rates, NEW level \in {0, Bitrate[camera]},
                SampleMain(est, level)
         PROVE  Guarded'
    <3>1. UNCHANGED <<autoLow, startupTimer, open, episodes, stallTimer,
                      waitingSince, freeze, frozen>>
      BY <2>6, <2>14, SampleMainDoes DEF IInv
    <3> QED
      BY <2>2, <3>1, GuardedSame
  <2>15. CASE Tick
    <3>1. autoLow' = autoLow
      BY <2>15 DEF Tick
    <3> QED
      BY <2>2, <2>15, <3>1, GuardedTick
  <2>16. CASE UNCHANGED vars
    <3>1. UNCHANGED <<autoLow, startupTimer, open, episodes, stallTimer,
                      waitingSince, freeze, frozen>>
      BY <2>16 DEF vars, player, viewer, stalls
    <3> QED
      BY <2>2, <3>1, GuardedSame
  <2> QED
    BY <1>2, <2>7, <2>8, <2>9, <2>10, <2>11, <2>12, <2>13, <2>14, <2>15, <2>16
       DEF Next, Renders
<1> QED
  BY <1>1, <1>2

(* Nothing is measured and nothing is seen at first.                       *)
LEMMA IInvInit == Init => IInv
<1> SUFFICES ASSUME Init PROVE IInv
  OBVIOUS
<1>1. Shape
  BY ShapeInit
<1>2. InWindow /\ NotOverdue /\ ViewerFollows
  BY DEF Init, InWindow, NotOverdue, ViewerFollows
<1>3. WantedFollows
  BY DEF Init, WantedFollows
<1>4. ~OnOriginal
  BY DEF Init, OnOriginal
<1> QED
  BY <1>1, <1>2, <1>3, <1>4 DEF IInv

(* The inductive invariant, for a viewer who is not hasty.                 *)
LEMMA IInvAlways == ~HastyMoves => (Spec => []IInv)
<1> SUFFICES ASSUME ~HastyMoves PROVE Spec => []IInv
  OBVIOUS
<1>1. IInv /\ [Next]_vars => IInv'
  BY ShapeStep, ClockStep, ViewerStep, WantedStep, GuardedStep DEF IInv
<1> QED
  BY <1>1, IInvInit, PTL DEF Spec

(* A viewer in auto who waits for the coverage of his moves never sees the *)
(* original frozen for longer than the budget of one freeze while the low  *)
(* stream could replace it (record.md:379, AutoQualityGovernor.ts:161).    *)
THEOREM FreezesCut == ~HastyMoves => (Spec => []FreezesAreCut)
<1> SUFFICES ASSUME ~HastyMoves PROVE Spec => []FreezesAreCut
  OBVIOUS
<1>1. IInv => FreezesAreCut
  <2> SUFFICES ASSUME IInv, CouldGoLow, freeze # NoFreeze
               PROVE  now - freeze.start <= IF freeze.graced THEN GracedStall
                                                             ELSE SingleStall
    BY DEF FreezesAreCut
  <2>1. OnOriginal
    BY DEF CouldGoLow, OnOriginal, Settled
  <2>2. /\ now <= stallTimer
        /\ stallTimer <= freeze.start + (IF freeze.graced THEN GracedStall
                                                          ELSE SingleStall)
    BY <2>1 DEF IInv, Guarded, NotOverdue
  <2>3. /\ now \in Nat /\ freeze.start \in Nat
        /\ stallTimer \in Nat \cup {Never}
        /\ GracedStall \in Nat /\ SingleStall \in Nat
    BY ShapeParts, Now, Constants DEF IInv, ViewerOK, StallsOK, Freezes
  <2> QED
    BY <2>2, <2>3 DEF Never
<1> QED
  BY <1>1, IInvAlways, PTL

(* Nor do his freezes add up to more than the cumulative budget within a   *)
(* window, those that a seek graces left out (record.md:379,               *)
(* AutoQualityGovernor.ts:170).                                            *)
THEOREM ChronicFreezesCut == ~HastyMoves => (Spec => []ChronicFreezesAreCut)
<1> SUFFICES ASSUME ~HastyMoves PROVE Spec => []ChronicFreezesAreCut
  OBVIOUS
<1>1. IInv => ChronicFreezesAreCut
  <2> SUFFICES ASSUME IInv, CouldGoLow
               PROVE  Cardinality(Pruned(frozen, now)) <= CumulativeStall
    BY DEF ChronicFreezesAreCut
  <2>1. OnOriginal
    BY DEF CouldGoLow, OnOriginal, Settled
  <2>2. Pruned(frozen, now) = frozen
    BY DEF IInv, InWindow, Pruned
  <2> QED
    BY <2>1, <2>2 DEF IInv, Guarded
<1> QED
  BY <1>1, IInvAlways, PTL

(* Nor does he wait for the first frame of the original for longer than    *)
(* the startup budget (record.md:381, DynamicVideoPlayer.tsx:585).         *)
THEOREM StartupCut == ~HastyMoves => (Spec => []StartupIsCut)
<1> SUFFICES ASSUME ~HastyMoves PROVE Spec => []StartupIsCut
  OBVIOUS
<1>1. IInv => StartupIsCut
  <2> SUFFICES ASSUME IInv, CouldGoLow, waitingSince # Never
               PROVE  now - waitingSince <= Startup
    BY DEF StartupIsCut
  <2>1. OnOriginal
    BY DEF CouldGoLow, OnOriginal, Settled
  <2>2. /\ now \in Nat /\ waitingSince \in Nat /\ Startup \in Nat
    BY ShapeParts, Now, Constants DEF IInv, PlayerOK
  <2>3. startupTimer = waitingSince + Startup
    BY <2>1 DEF IInv, Guarded
  <2>4. now <= startupTimer
    BY <2>2, <2>3 DEF IInv, NotOverdue, Never
  <2> QED
    BY <2>2, <2>3, <2>4
<1> QED
  BY <1>1, IInvAlways, PTL
=============================================================================
