----------------------- MODULE ObjectDetection_proofs -----------------------
(***************************************************************************)
(* Proofs about ObjectDetection for any number of cameras, detectors and   *)
(* requests.                                                               *)
(***************************************************************************)
EXTENDS ObjectDetection, TLAPS

(* A detector holds the name of a camera exactly from queue.get until its  *)
(* signal is sent.                                                         *)
Holding == {"taken", "busy", "hung", "done", "written"}

WorkIsHeld ==
  \A d \in Detectors :
    IF runner[d] \in Holding THEN work[d] \in Cameras ELSE work[d] = NoCamera

(* The watchdog starts a process only in the place of one that is gone.    *)
StartsTheGone ==
  watchdog = "starting" => suspect \in Detectors /\ runner[suspect] = "gone"

(* The bound on requests is looked at before the frame is copied. *)
RequestIsAllowed ==
  \A c \in Cameras : client[c] = "drained" => request[c] < MaxRequests

TypeInv == TypeOK /\ WorkIsHeld /\ StartsTheGone /\ RequestIsAllowed

USE DEF Requests

(* The initial state is typed; no detector holds anything.                 *)
LEMMA InitTypeInv == Init => TypeInv
  BY DetectionAssumption
  DEF Init, TypeInv, TypeOK, WorkIsHeld, StartsTheGone, RequestIsAllowed, Holding

(* No step of a camera's process breaks the types.                         *)
LEMMA ClientTypeInv ==
  ASSUME TypeInv, NEW c \in Cameras, Client(c)
  PROVE  TypeInv'
<1> USE DetectionAssumption
    DEF TypeInv, TypeOK, WorkIsHeld, StartsTheGone, RequestIsAllowed, runnerVars, watchdogVars
<1>1. CASE Drain(c)
  BY <1>1 DEF Drain
<1>2. CASE CopyInput(c)
  BY <1>2 DEF CopyInput
<1>3. CASE PutRequest(c)
  <2>1. queue' \in Seq(Cameras)
    BY <1>3 DEF PutRequest
  <2>2. /\ client' = [client EXCEPT ![c] = "waiting"]
        /\ UNCHANGED <<request, output, signals, answer, late, runnerVars,
                       watchdogVars>>
    BY <1>3 DEF PutRequest
  <2> QED
    BY <2>1, <2>2
<1>4. CASE ReceiveSignal(c)
  <2>1. signals' \in [Cameras -> Nat] /\ client' = [client EXCEPT ![c] = "reading"]
    BY <1>4 DEF ReceiveSignal
  <2>2. UNCHANGED <<request, output, answer, late, queue, runnerVars, watchdogVars>>
    BY <1>4 DEF ReceiveSignal
  <2> QED
    BY <2>1, <2>2
<1>5. CASE ReadOutput(c)
  BY <1>5 DEF ReadOutput
<1>6. CASE GiveUp(c)
  BY <1>6 DEF GiveUp
<1> QED
  BY <1>1, <1>2, <1>3, <1>4, <1>5, <1>6 DEF Client

(* No step of a detector's process breaks them.                            *)
LEMMA RunnerTypeInv ==
  ASSUME TypeInv, NEW d \in Detectors, Runner(d)
  PROVE  TypeInv'
<1> USE DetectionAssumption
    DEF TypeInv, TypeOK, WorkIsHeld, StartsTheGone, RequestIsAllowed, Holding, Goto, clientVars,
        watchdogVars
<1>1. CASE EnterGet(d)
  BY <1>1 DEF EnterGet
<1>2. CASE GetTimesOut(d)
  BY <1>2 DEF GetTimesOut
<1>3. CASE TakeRequest(d)
  <2>1. queue' \in Seq(Cameras) /\ Head(queue) \in Cameras
    BY <1>3 DEF TakeRequest
  <2>2. /\ runner[d] = "getting"
        /\ runner' = [runner EXCEPT ![d] = "taken"]
        /\ lock' = Nobody
        /\ work' = [work EXCEPT ![d] = Head(queue)]
        /\ UNCHANGED <<clientVars, result, started, watchdogVars>>
    BY <1>3 DEF TakeRequest
  <2> QED
    BY <2>1, <2>2
<1>4. CASE SkipRequest(d)
  BY <1>4 DEF SkipRequest
<1>5. CASE StartInference(d)
  BY <1>5 DEF StartInference
<1>6. CASE Infer(d)
  BY <1>6 DEF Infer
<1>7. CASE Hang(d)
  BY <1>7 DEF Hang
<1>8. CASE WriteOutput(d)
  BY <1>8 DEF WriteOutput
<1>9. CASE PublishSignal(d)
  <2>1. /\ runner' = [runner EXCEPT ![d] = "published"]
        /\ work' = [work EXCEPT ![d] = NoCamera]
        /\ signals' = [signals EXCEPT ![work[d]] = signals[work[d]] + 1]
        /\ work[d] \in Cameras
    BY <1>9 DEF PublishSignal
  <2>2. UNCHANGED <<client, request, output, answer, late, queue, lock, result,
                    started, watchdog, suspect>>
    BY <1>9 DEF PublishSignal
  <2>3. signals' \in [Cameras -> Nat]
    BY <2>1
  <2>4. WorkIsHeld'
    BY <2>1, <2>2
  <2> QED
    BY <2>1, <2>2, <2>3, <2>4
<1>10. CASE FinishRequest(d)
  BY <1>10 DEF FinishRequest
<1>11. CASE Fail(d)
  BY <1>11 DEF Fail
<1> QED
  BY <1>1, <1>2, <1>3, <1>4, <1>5, <1>6, <1>7, <1>8, <1>9, <1>10, <1>11
  DEF Runner

(* No step of the watchdog breaks them.                                    *)
LEMMA WatchdogTypeInv ==
  ASSUME TypeInv, NEW d \in Detectors, Watchdog(d)
  PROVE  TypeInv'
<1> USE DetectionAssumption
    DEF TypeInv, TypeOK, WorkIsHeld, StartsTheGone, RequestIsAllowed, Holding, Goto, clientVars,
        runnerVars
<1>1. CASE SuspectDetector(d)
  BY <1>1 DEF SuspectDetector
<1>2. CASE JoinReturns(d)
  BY <1>2 DEF JoinReturns
<1>3. CASE FindRecovered(d)
  BY <1>3 DEF FindRecovered
<1>4. CASE DecideToKill(d)
  BY <1>4 DEF DecideToKill
<1>5. CASE KillDetector(d)
  BY <1>5 DEF KillDetector
<1>6. CASE StartDetector(d)
  BY <1>6 DEF StartDetector
<1> QED
  BY <1>1, <1>2, <1>3, <1>4, <1>5, <1>6 DEF Watchdog

(* Nothing breaks them.                                                    *)
LEMMA NextTypeInv == TypeInv /\ [Next]_vars => TypeInv'
<1> SUFFICES ASSUME TypeInv, [Next]_vars PROVE TypeInv'
  OBVIOUS
<1>1. CASE RestartFrigate
  BY <1>1, DetectionAssumption
  DEF RestartFrigate, TypeInv, TypeOK, WorkIsHeld, StartsTheGone, RequestIsAllowed, Holding,
      watchdogVars
<1>2. CASE UNCHANGED vars
  BY <1>2 DEF vars, clientVars, runnerVars, watchdogVars, TypeInv, TypeOK,
              WorkIsHeld, StartsTheGone, RequestIsAllowed
<1> QED
  BY <1>1, <1>2, ClientTypeInv, RunnerTypeInv, WatchdogTypeInv DEF Next

(* Type correctness: whatever hangs, fails or is killed, every part of the *)
(* service's state keeps its shape, and a detector that runs its model has *)
(* a camera to answer.                                                     *)
THEOREM Types == Spec => []TypeOK
<1>1. TypeInv => TypeOK
  BY DEF TypeInv
<1> QED
  BY InitTypeInv, NextTypeInv, <1>1, PTL DEF Spec

-----------------------------------------------------------------------------
(* While no request of a camera has timed out, its one request is in one   *)
(* place: the queue, a detector or, answered, the camera's socket; or it   *)
(* was dropped and is nowhere.                                             *)

Absent(c) ==
  /\ \A i \in 1..Len(queue) : queue[i] # c
  /\ \A d \in Detectors : work[d] # c

OnePlace(c) ==
  /\ \A i, j \in 1..Len(queue) : queue[i] = c /\ queue[j] = c => i = j
  /\ \A d, e \in Detectors : work[d] = c /\ work[e] = c => d = e
  /\ \A i \in 1..Len(queue), d \in Detectors : ~(queue[i] = c /\ work[d] = c)
  /\ signals[c] > 0 => signals[c] = 1 /\ Absent(c)
  /\ client[c] # "waiting" => signals[c] = 0 /\ Absent(c)

(* What has been computed for that request was computed on its frame. *)
OwnResult(c) ==
  /\ \A d \in Detectors : work[d] = c /\ runner[d] = "done" => result[d] = request[c]
  /\ \A d \in Detectors : work[d] = c /\ runner[d] = "written" => output[c] = request[c]
  /\ signals[c] > 0 => output[c] = request[c]
  /\ client[c] = "reading" => output[c] = request[c]
  /\ client[c] = "idle" => answer[c] \in {0, request[c]}

Token == \A c \in Cameras : ~late[c] => OnePlace(c) /\ OwnResult(c)

(* Nothing has been asked for.                                             *)
LEMMA InitToken == Init => Token
  BY DetectionAssumption DEF Init, Token, OnePlace, OwnResult, Absent

(* A camera's process adds its name to the queue only when it has nothing  *)
(* out, and copies a frame only then.                                      *)
LEMMA ClientToken ==
  ASSUME TypeInv, Token, NEW b \in Cameras, Client(b)
  PROVE  Token'
<1> SUFFICES ASSUME NEW c \in Cameras, ~late'[c]
             PROVE  (OnePlace(c) /\ OwnResult(c))'
  BY DEF Token
<1>a. ~late[c]
  BY DEF TypeInv, TypeOK, Client, Drain, CopyInput, PutRequest, ReceiveSignal,
         ReadOutput, GiveUp
<1>b. OnePlace(c) /\ OwnResult(c)
  BY <1>a DEF Token
<1> USE <1>a, <1>b DEF OnePlace, OwnResult, Absent, runnerVars, watchdogVars
<1>1. CASE Drain(b)
  BY <1>1 DEF Drain, TypeInv, TypeOK
<1>2. CASE CopyInput(b)
  <2>1. UNCHANGED <<output, signals, answer, late, queue, work,
                     result, runner>>
    BY <1>2 DEF CopyInput, TypeInv, TypeOK
  <2>2. CASE c = b
    <3>1. client[c] = "drained" /\ client'[c] = "copied"
      BY <1>2, <2>2 DEF CopyInput, TypeInv, TypeOK
    <3> QED
      BY <2>1, <3>1
  <2>3. CASE c # b
    <3>1. client'[c] = client[c] /\ request'[c] = request[c]
      BY <1>2, <2>3 DEF CopyInput, TypeInv, TypeOK
    <3> QED
      BY <2>1, <3>1
  <2> QED
    BY <2>2, <2>3
<1>3. CASE PutRequest(b)
  <2>1. UNCHANGED <<request, output, signals, answer, late, work,
                     result, runner>>
    BY <1>3 DEF PutRequest, TypeInv, TypeOK
  <2>2. /\ Len(queue') = Len(queue) + 1
        /\ \A i \in 1..Len(queue) : queue'[i] = queue[i]
        /\ queue'[Len(queue')] = b
    BY <1>3 DEF PutRequest, TypeInv, TypeOK
  <2>3. Len(queue) \in Nat
    BY DEF TypeInv, TypeOK
  <2>4. CASE c = b
    <3>1. client[c] = "copied" /\ client'[c] = "waiting"
      BY <1>3, <2>4 DEF PutRequest, TypeInv, TypeOK
    <3> QED
      BY <2>1, <2>2, <2>3, <2>4, <3>1
  <2>5. CASE c # b
    <3>1. client'[c] = client[c]
      BY <1>3, <2>5 DEF PutRequest, TypeInv, TypeOK
    <3> QED
      BY <2>1, <2>2, <2>3, <2>5, <3>1
  <2> QED
    BY <2>4, <2>5
<1>4. CASE ReceiveSignal(b)
  BY <1>4 DEF ReceiveSignal, TypeInv, TypeOK
<1>5. CASE ReadOutput(b)
  BY <1>5 DEF ReadOutput, TypeInv, TypeOK
<1>6. CASE GiveUp(b)
  BY <1>6 DEF GiveUp, TypeInv, TypeOK
<1> QED
  BY <1>1, <1>2, <1>3, <1>4, <1>5, <1>6 DEF Client

(* A detector moves a name from the queue to itself to the socket, and     *)
(* writes in between what it computed.                                     *)
LEMMA RunnerToken ==
  ASSUME TypeInv, Token, NEW d \in Detectors, Runner(d)
  PROVE  Token'
<1> SUFFICES ASSUME NEW c \in Cameras, ~late'[c]
             PROVE  (OnePlace(c) /\ OwnResult(c))'
  BY DEF Token
<1>a. ~late[c]
  BY DEF Runner, EnterGet, GetTimesOut, TakeRequest, SkipRequest, StartInference,
         Infer, Hang, WriteOutput, PublishSignal, FinishRequest, Fail, clientVars
<1>b. OnePlace(c) /\ OwnResult(c)
  BY <1>a DEF Token
<1> USE <1>a, <1>b, DetectionAssumption
    DEF OnePlace, OwnResult, Absent, Goto, clientVars, watchdogVars
<1>1. CASE EnterGet(d)
  BY <1>1 DEF EnterGet, TypeInv, TypeOK, WorkIsHeld, Holding
<1>2. CASE GetTimesOut(d)
  BY <1>2 DEF GetTimesOut, TypeInv, TypeOK, WorkIsHeld, Holding
<1>3. CASE TakeRequest(d)
  <2>1. UNCHANGED <<client, request, output, signals, answer, late,
                     result>>
    BY <1>3 DEF TakeRequest, TypeInv, TypeOK, WorkIsHeld, Holding
  <2>2. /\ Len(queue) \in Nat \ {0} /\ Len(queue') = Len(queue) - 1
        /\ \A i \in 1..Len(queue') : queue'[i] = queue[i + 1]
        /\ Head(queue) = queue[1]
    BY <1>3 DEF TakeRequest, TypeInv, TypeOK, WorkIsHeld, Holding
  <2>3. /\ work[d] = NoCamera /\ work'[d] = queue[1] /\ runner'[d] = "taken"
        /\ \A e \in Detectors : e # d => work'[e] = work[e] /\ runner'[e] = runner[e]
    <3>1. runner[d] = "getting" /\ runner' = [runner EXCEPT ![d] = "taken"]
      BY <1>3 DEF TakeRequest
    <3>2. work' = [work EXCEPT ![d] = queue[1]]
      BY <1>3, <2>2 DEF TakeRequest
    <3> QED
      BY <3>1, <3>2 DEF TypeInv, TypeOK, WorkIsHeld, Holding
  <2>4. OnePlace(c)'
    <3>1. CASE queue[1] = c
      BY <2>1, <2>2, <2>3, <3>1
    <3>2. CASE queue[1] # c
      <4>1. work'[d] # c /\ (\A e \in Detectors : e # d => work'[e] = work[e])
        BY <2>3, <3>2, Zenon
      <4>2. ASSUME NEW e \in Detectors, work'[e] = c PROVE work[e] = c
        <5>1. e # d
          BY <4>1, <4>2, Zenon
        <5> QED
          BY <4>1, <4>2, <5>1, Zenon
      <4>3. \A i \in 1..Len(queue') :
              i + 1 \in 1..Len(queue) /\ queue'[i] = queue[i + 1]
        BY <2>2
      <4>4. \A i, j \in 1..Len(queue') : queue'[i] = c /\ queue'[j] = c => i = j
        BY <2>2, <4>3
      <4>5. \A i \in 1..Len(queue'), e \in Detectors : ~(queue'[i] = c /\ work'[e] = c)
        BY <4>2, <4>3
      <4>6. Absent(c) => Absent(c)'
        BY <4>2, <4>3
      <4> QED
        BY <2>1, <4>2, <4>4, <4>5, <4>6
    <3> QED
      BY <3>1, <3>2
  <2>5. OwnResult(c)'
    BY <2>1, <2>3
  <2> QED
    BY <2>4, <2>5
<1>4. CASE SkipRequest(d)
  <2>1. runner' = [runner EXCEPT ![d] = "ready"] /\ work' = [work EXCEPT ![d] = NoCamera]
    BY <1>4 DEF SkipRequest
  <2>2. UNCHANGED <<client, request, output, signals, answer, queue, result>>
    BY <1>4 DEF SkipRequest
  <2> QED
    BY <2>1, <2>2 DEF TypeInv, TypeOK
<1>5. CASE StartInference(d)
  <2>1. runner' = [runner EXCEPT ![d] = "busy"]
    BY <1>5 DEF StartInference
  <2>2. UNCHANGED <<client, request, output, signals, answer, queue, work, result>>
    BY <1>5 DEF StartInference
  <2> QED
    BY <2>1, <2>2 DEF TypeInv, TypeOK
<1>6. CASE Infer(d)
  <2>1. /\ runner' = [runner EXCEPT ![d] = "done"]
        /\ result' = [result EXCEPT ![d] = request[work[d]]]
    BY <1>6 DEF Infer
  <2>2. UNCHANGED <<client, request, output, signals, answer, queue, work>>
    BY <1>6 DEF Infer
  <2> QED
    BY <2>1, <2>2 DEF TypeInv, TypeOK
<1>7. CASE Hang(d)
  <2>1. runner' = [runner EXCEPT ![d] = "hung"]
    BY <1>7 DEF Hang
  <2>2. UNCHANGED <<client, request, output, signals, answer, queue, work, result>>
    BY <1>7 DEF Hang
  <2> QED
    BY <2>1, <2>2 DEF TypeInv, TypeOK
<1>8. CASE WriteOutput(d)
  BY <1>8 DEF WriteOutput, TypeInv, TypeOK, WorkIsHeld, Holding
<1>9. CASE PublishSignal(d)
  <2>1. UNCHANGED <<client, request, output, answer, late, queue,
                     result>>
    BY <1>9 DEF PublishSignal
  <2>2. /\ runner[d] = "written" /\ runner'[d] = "published"
        /\ work[d] \in Cameras /\ work'[d] = NoCamera
        /\ \A e \in Detectors : e # d => work'[e] = work[e] /\ runner'[e] = runner[e]
    BY <1>9 DEF PublishSignal, TypeInv, TypeOK, WorkIsHeld, Holding
  <2>3. CASE work[d] = c
    <3>1. signals[c] \in Nat /\ signals'[c] = signals[c] + 1
      BY <1>9, <2>3 DEF PublishSignal, TypeInv, TypeOK
    <3>2. signals'[c] = 1 /\ client[c] = "waiting" /\ output[c] = request[c]
      BY <2>2, <2>3, <3>1
    <3>3. Absent(c)'
      BY <2>1, <2>2, <2>3
    <3> QED
      BY <2>1, <2>2, <3>2, <3>3
  <2>4. CASE work[d] # c
    <3>1. signals'[c] = signals[c]
      BY <1>9, <2>4 DEF PublishSignal, TypeInv, TypeOK
    <3> QED
      BY <2>1, <2>2, <2>4, <3>1
  <2> QED
    BY <2>3, <2>4
<1>10. CASE FinishRequest(d)
  BY <1>10 DEF FinishRequest, TypeInv, TypeOK, WorkIsHeld, Holding
<1>11. CASE Fail(d)
  BY <1>11 DEF Fail, TypeInv, TypeOK, WorkIsHeld, Holding
<1> QED
  BY <1>1, <1>2, <1>3, <1>4, <1>5, <1>6, <1>7, <1>8, <1>9, <1>10, <1>11
  DEF Runner

(* The watchdog can only take a name away.                                 *)
LEMMA WatchdogToken ==
  ASSUME TypeInv, Token, NEW d \in Detectors, Watchdog(d)
  PROVE  Token'
<1> SUFFICES ASSUME NEW c \in Cameras, ~late'[c]
             PROVE  (OnePlace(c) /\ OwnResult(c))'
  BY DEF Token
<1>a. ~late[c]
  BY DEF Watchdog, SuspectDetector, JoinReturns, FindRecovered, DecideToKill,
         KillDetector, StartDetector, clientVars
<1>b. OnePlace(c) /\ OwnResult(c)
  BY <1>a DEF Token
<1> USE <1>a, <1>b, DetectionAssumption
    DEF TypeInv, TypeOK, WorkIsHeld, StartsTheGone, Holding, OnePlace,
        OwnResult, Absent, Goto, clientVars, runnerVars
<1>1. CASE SuspectDetector(d)
  BY <1>1 DEF SuspectDetector
<1>2. CASE JoinReturns(d)
  BY <1>2 DEF JoinReturns
<1>3. CASE FindRecovered(d)
  BY <1>3 DEF FindRecovered
<1>4. CASE DecideToKill(d)
  BY <1>4 DEF DecideToKill
<1>5. CASE KillDetector(d)
  BY <1>5 DEF KillDetector
<1>6. CASE StartDetector(d)
  BY <1>6 DEF StartDetector
<1> QED
  BY <1>1, <1>2, <1>3, <1>4, <1>5, <1>6 DEF Watchdog

(* The request of a camera that was never late is never in two places.     *)
LEMMA NextToken == TypeInv /\ Token /\ [Next]_vars => Token'
<1> SUFFICES ASSUME TypeInv, Token, [Next]_vars PROVE Token'
  OBVIOUS
<1>1. CASE RestartFrigate
  BY <1>1, DetectionAssumption
  DEF RestartFrigate, Token, OnePlace, OwnResult, Absent
<1>2. CASE UNCHANGED vars
  BY <1>2 DEF vars, clientVars, runnerVars, Token, OnePlace, OwnResult, Absent
<1> QED
  BY <1>1, <1>2, ClientToken, RunnerToken, WatchdogToken DEF Next

(* As long as no request of a camera has timed out, detect returns nothing *)
(* but results of the frame it was called with, whatever the detectors and *)
(* the watchdog do.                                                        *)
THEOREM Fresh == Spec => []FreshUntilLate
<1>1. Token => FreshUntilLate
  BY DEF Token, OwnResult, FreshUntilLate
<1> QED
  BY InitTypeInv, NextTypeInv, InitToken, NextToken, <1>1, PTL DEF Spec

(* As long as no request of a camera has timed out, its input buffer is    *)
(* only overwritten when nobody needs the old frame.                       *)
THEOREM InputUntouched == Spec => []InputUntouchedUntilLate
<1>1. Token => InputUntouchedUntilLate
  BY DEF Token, OnePlace, Absent, InputUntouchedUntilLate
<1> QED
  BY InitTypeInv, NextTypeInv, InitToken, NextToken, <1>1, PTL DEF Spec
=============================================================================
