--------------------------- MODULE ObjectDetection ---------------------------
(***************************************************************************)
(* Object detection as a service between processes                         *)
(* (src/frigate/object_detection/base.py, the detector part of             *)
(* src/frigate/watchdog.py and src/frigate/comms/object_detector_signaler  *)
(* .py). Camera processes write a frame to shared memory, put their name   *)
(* on one queue, and wait five seconds for a signal; detector processes    *)
(* take names from the queue, run the model on the frame in shared memory, *)
(* write the result to the camera's only output buffer and signal. A       *)
(* watchdog thread replaces a detector that is stuck.                      *)
(*                                                                         *)
(* Abstractions: a frame, and the result computed from it, is the number   *)
(* of the request that copied the frame; an inference may take any time,   *)
(* so that five, ten or thirty seconds may pass whenever they are waited   *)
(* for; the proxy between the sockets delivers at once (a delay is one of  *)
(* the detector before it publishes).                                      *)
(***************************************************************************)
EXTENDS Integers, Sequences

CONSTANTS
  Cameras,       \* camera processes; each has one request out at a time
  Detectors,     \* names of detectors; each has one process at a time
  NoCamera,      \* the detector holds no request
  Nobody,        \* the lock of the queue is free; the watchdog watches
  MaxRequests    \* bound: requests per camera

ASSUME DetectionAssumption ==
  /\ NoCamera \notin Cameras
  /\ Nobody \notin Detectors
  /\ MaxRequests \in Nat

VARIABLES
  client,     \* client[c]: where RemoteObjectDetector.detect is
  request,    \* request[c]: the frame in the camera's input buffer (np_shm)
  output,     \* output[c]: the frame whose result is in out_np_shm
  signals,    \* signals[c]: signals waiting in the camera's SUB socket
  answer,     \* answer[c]: the frame whose result detect returned, 0 for none
  late,       \* late[c]: a request of this camera has timed out (history)
  queue,      \* detection_queue
  lock,       \* who holds the queue's reader lock
  runner,     \* runner[d]: where DetectorRunner.run is
  work,       \* work[d]: the camera whose request d has taken
  result,     \* result[d]: the frame d has run the model on
  started,    \* started[d]: detection_start is set
  watchdog,   \* what the watchdog does with "suspect"
  suspect     \* the detector the watchdog restarts

clientVars == <<client, request, output, signals, answer, late>>
runnerVars == <<lock, runner, work, result, started>>
watchdogVars == <<watchdog, suspect>>
vars == <<clientVars, queue, runnerVars, watchdogVars>>

Requests == 0..MaxRequests

(* Every part of the state has the shape the code gives it. *)
TypeOK ==
  /\ client \in [Cameras -> {"idle", "drained", "copied", "waiting", "reading"}]
  /\ request \in [Cameras -> Requests]
  /\ output \in [Cameras -> Requests]
  /\ signals \in [Cameras -> Nat]
  /\ answer \in [Cameras -> Requests]
  /\ late \in [Cameras -> BOOLEAN]
  /\ queue \in Seq(Cameras)
  /\ lock \in Detectors \cup {Nobody}
  /\ runner \in [Detectors -> {"ready", "getting", "taken", "busy", "hung",
                               "done", "written", "published", "gone"}]
  /\ work \in [Detectors -> Cameras \cup {NoCamera}]
  /\ result \in [Detectors -> Requests]
  /\ started \in [Detectors -> BOOLEAN]
  /\ watchdog \in {"watching", "joining", "killing", "starting"}
  /\ suspect \in Detectors \cup {Nobody}

Init ==
  /\ client = [c \in Cameras |-> "idle"]
  /\ request = [c \in Cameras |-> 0]
  /\ output = [c \in Cameras |-> 0]
  /\ signals = [c \in Cameras |-> 0]
  /\ answer = [c \in Cameras |-> 0]
  /\ late = [c \in Cameras |-> FALSE]
  /\ queue = <<>>
  /\ lock = Nobody
  /\ runner = [d \in Detectors |-> "ready"]
  /\ work = [d \in Detectors |-> NoCamera]
  /\ result = [d \in Detectors |-> 0]
  /\ started = [d \in Detectors |-> FALSE]
  /\ watchdog = "watching"
  /\ suspect = Nobody

-----------------------------------------------------------------------------
(* RemoteObjectDetector.detect, in the camera's process *)

(* Signals left from requests that were given up are thrown away. *)
Drain(c) ==
  /\ client[c] = "idle" /\ request[c] < MaxRequests
  /\ client' = [client EXCEPT ![c] = "drained"]
  /\ signals' = [signals EXCEPT ![c] = 0]
  /\ UNCHANGED <<request, output, answer, late, queue, runnerVars, watchdogVars>>

CopyInput(c) ==
  /\ client[c] = "drained"
  /\ client' = [client EXCEPT ![c] = "copied"]
  /\ request' = [request EXCEPT ![c] = @ + 1]
  /\ UNCHANGED <<output, signals, answer, late, queue, runnerVars, watchdogVars>>

PutRequest(c) ==
  /\ client[c] = "copied"
  /\ client' = [client EXCEPT ![c] = "waiting"]
  /\ queue' = Append(queue, c)
  /\ UNCHANGED <<request, output, signals, answer, late, runnerVars, watchdogVars>>

(* Mutant: the socket is not waited for. *)
ReceiveUnsignalled(c) ==
  /\ client[c] = "waiting"
  /\ client' = [client EXCEPT ![c] = "reading"]
  /\ signals' = [signals EXCEPT ![c] = @ - 1]
  /\ UNCHANGED <<request, output, answer, late, queue, runnerVars, watchdogVars>>

ReceiveSignal(c) ==
  /\ client[c] = "waiting" /\ signals[c] > 0
  /\ client' = [client EXCEPT ![c] = "reading"]
  /\ signals' = [signals EXCEPT ![c] = @ - 1]
  /\ UNCHANGED <<request, output, answer, late, queue, runnerVars, watchdogVars>>

ReadOutput(c) ==
  /\ client[c] = "reading"
  /\ client' = [client EXCEPT ![c] = "idle"]
  /\ answer' = [answer EXCEPT ![c] = output[c]]
  /\ UNCHANGED <<request, output, signals, late, queue, runnerVars, watchdogVars>>

(* Mutant: detect waits on after five seconds. *)
GiveUpNever(c) == client[c] = "waiting" /\ signals[c] = 0 /\ UNCHANGED vars

(* Five seconds without a signal: no detections, and the request stays     *)
(* wherever it is.                                                         *)
GiveUp(c) ==
  /\ client[c] = "waiting" /\ signals[c] = 0
  /\ client' = [client EXCEPT ![c] = "idle"]
  /\ answer' = [answer EXCEPT ![c] = 0]
  /\ late' = [late EXCEPT ![c] = TRUE]
  /\ UNCHANGED <<request, output, signals, queue, runnerVars, watchdogVars>>

-----------------------------------------------------------------------------
(* DetectorRunner.run, in the detector's process *)

Goto(d, place) == runner' = [runner EXCEPT ![d] = place]

(* queue.get waits for a name with the reader lock of the queue held. *)
EnterGet(d) ==
  /\ runner[d] = "ready" /\ lock = Nobody
  /\ Goto(d, "getting")
  /\ lock' = d
  /\ UNCHANGED <<clientVars, queue, work, result, started, watchdogVars>>

GetTimesOut(d) ==
  /\ runner[d] = "getting" /\ queue = <<>>
  /\ Goto(d, "ready")
  /\ lock' = Nobody
  /\ UNCHANGED <<clientVars, queue, work, result, started, watchdogVars>>

(* Mutant: the name is looked at, not taken. *)
TakePeeks(d) ==
  /\ runner[d] = "getting" /\ queue # <<>>
  /\ Goto(d, "taken")
  /\ lock' = Nobody
  /\ work' = [work EXCEPT ![d] = Head(queue)]
  /\ UNCHANGED <<clientVars, queue, result, started, watchdogVars>>

TakeRequest(d) ==
  /\ runner[d] = "getting" /\ queue # <<>>
  /\ Goto(d, "taken")
  /\ lock' = Nobody
  /\ work' = [work EXCEPT ![d] = Head(queue)]
  /\ queue' = Tail(queue)
  /\ UNCHANGED <<clientVars, result, started, watchdogVars>>

(* The frame cannot be found in shared memory: the request is dropped. *)
SkipRequest(d) ==
  /\ runner[d] = "taken"
  /\ Goto(d, "ready")
  /\ work' = [work EXCEPT ![d] = NoCamera]
  /\ UNCHANGED <<clientVars, queue, lock, result, started, watchdogVars>>

StartInference(d) ==
  /\ runner[d] = "taken"
  /\ Goto(d, "busy")
  /\ started' = [started EXCEPT ![d] = TRUE]
  /\ UNCHANGED <<clientVars, queue, lock, work, result, watchdogVars>>

(* The model runs on the camera's input buffer, not on a copy. *)
Infer(d) ==
  /\ runner[d] = "busy"
  /\ Goto(d, "done")
  /\ result' = [result EXCEPT ![d] = request[work[d]]]
  /\ UNCHANGED <<clientVars, queue, lock, work, started, watchdogVars>>

Hang(d) ==
  /\ runner[d] = "busy"
  /\ Goto(d, "hung")
  /\ UNCHANGED <<clientVars, queue, lock, work, result, started, watchdogVars>>

WriteOutput(d) ==
  /\ runner[d] = "done"
  /\ Goto(d, "written")
  /\ output' = [output EXCEPT ![work[d]] = result[d]]
  /\ UNCHANGED <<client, request, signals, answer, late, queue, lock, work,
                 result, started, watchdogVars>>

PublishSignal(d) ==
  /\ runner[d] = "written"
  /\ Goto(d, "published")
  /\ signals' = [signals EXCEPT ![work[d]] = @ + 1]
  /\ work' = [work EXCEPT ![d] = NoCamera]
  /\ UNCHANGED <<client, request, output, answer, late, queue, lock, result,
                 started, watchdogVars>>

FinishRequest(d) ==
  /\ runner[d] = "published"
  /\ Goto(d, "ready")
  /\ started' = [started EXCEPT ![d] = FALSE]
  /\ UNCHANGED <<clientVars, queue, lock, work, result, watchdogVars>>

(* The model fails with an exception and takes the process with it. *)
Fail(d) ==
  /\ runner[d] = "busy"
  /\ Goto(d, "gone")
  /\ work' = [work EXCEPT ![d] = NoCamera]
  /\ UNCHANGED <<clientVars, queue, lock, result, started, watchdogVars>>

-----------------------------------------------------------------------------
(* FrigateWatchdog._check_detectors and ObjectDetectProcess.start_or_restart *)

(* An inference that started more than ten seconds ago. *)
SuspectDetector(d) ==
  /\ watchdog = "watching" /\ started[d]
  /\ suspect' = d
  /\ watchdog' = IF runner[d] = "gone" THEN "starting" ELSE "joining"
  /\ UNCHANGED <<clientVars, queue, runnerVars>>

(* The process exited within the thirty seconds of the join. *)
JoinReturns(d) ==
  /\ watchdog = "joining" /\ suspect = d /\ runner[d] = "gone"
  /\ watchdog' = "starting"
  /\ UNCHANGED <<clientVars, queue, runnerVars, suspect>>

(* It did not, but the inference ended: it "may be waiting on the shared   *)
(* queue again" and is left alone.                                         *)
FindRecovered(d) ==
  /\ watchdog = "joining" /\ suspect = d
  /\ runner[d] # "gone" /\ ~started[d]
  /\ watchdog' = "watching"
  /\ suspect' = Nobody
  /\ UNCHANGED <<clientVars, queue, runnerVars>>

(* Mutant: the process is waited for once more. *)
DecideToWait(d) ==
  /\ watchdog = "joining" /\ suspect = d
  /\ runner[d] # "gone" /\ started[d]
  /\ UNCHANGED vars

(* It did not, and the inference still runs. *)
DecideToKill(d) ==
  /\ watchdog = "joining" /\ suspect = d
  /\ runner[d] # "gone" /\ started[d]
  /\ watchdog' = "killing"
  /\ UNCHANGED <<clientVars, queue, runnerVars, suspect>>

(* SIGKILL: what the process held stays held. *)
KillDetector(d) ==
  /\ watchdog = "killing" /\ suspect = d
  /\ Goto(d, "gone")
  /\ work' = [work EXCEPT ![d] = NoCamera]
  /\ watchdog' = "starting"
  /\ UNCHANGED <<clientVars, queue, lock, result, started, suspect>>

StartDetector(d) ==
  /\ watchdog = "starting" /\ suspect = d
  /\ Goto(d, "ready")
  /\ started' = [started EXCEPT ![d] = FALSE]
  /\ watchdog' = "watching"
  /\ suspect' = Nobody
  /\ UNCHANGED <<clientVars, queue, lock, work, result>>

(* A detector is gone and was not overdue: all of Frigate is restarted.    *)
RestartFrigate ==
  /\ watchdog = "watching"
  /\ \E d \in Detectors : runner[d] = "gone"
  /\ client' = [c \in Cameras |-> "idle"]
  /\ output' = [c \in Cameras |-> 0]
  /\ signals' = [c \in Cameras |-> 0]
  /\ answer' = [c \in Cameras |-> 0]
  /\ late' = [c \in Cameras |-> FALSE]
  /\ queue' = <<>>
  /\ lock' = Nobody
  /\ runner' = [d \in Detectors |-> "ready"]
  /\ work' = [d \in Detectors |-> NoCamera]
  /\ started' = [d \in Detectors |-> FALSE]
  /\ UNCHANGED <<request, result, watchdogVars>>

-----------------------------------------------------------------------------
Client(c) ==
  \/ Drain(c) \/ CopyInput(c) \/ PutRequest(c)
  \/ ReceiveSignal(c) \/ ReadOutput(c) \/ GiveUp(c)

Runner(d) ==
  \/ EnterGet(d) \/ GetTimesOut(d) \/ TakeRequest(d) \/ SkipRequest(d)
  \/ StartInference(d) \/ Infer(d) \/ Hang(d) \/ WriteOutput(d)
  \/ PublishSignal(d) \/ FinishRequest(d) \/ Fail(d)

Watchdog(d) ==
  \/ SuspectDetector(d) \/ JoinReturns(d) \/ FindRecovered(d)
  \/ DecideToKill(d) \/ KillDetector(d) \/ StartDetector(d)

Next ==
  \/ \E c \in Cameras : Client(c)
  \/ \E d \in Detectors : Runner(d) \/ Watchdog(d)
  \/ RestartFrigate

Spec == Init /\ [][Next]_vars

(* A process that is not stuck goes on; a model that hangs, hangs.         *)
FairSpec ==
  /\ Spec
  /\ \A c \in Cameras : WF_vars(Client(c))
  /\ \A d \in Detectors : WF_vars(Watchdog(d)) /\ WF_vars(Runner(d) /\ ~Hang(d))
  /\ WF_vars(RestartFrigate)

-----------------------------------------------------------------------------
(* Properties *)

(* As long as no request of a camera has timed out, what detect returns was *)
(* computed on the frame it was called with: not on an earlier frame, nor  *)
(* left in the output buffer by someone else.                              *)
FreshUntilLate ==
  \A c \in Cameras :
    client[c] = "idle" /\ ~late[c] => answer[c] \in {0, request[c]}

(* As long as no request of a camera has timed out, its input buffer is    *)
(* overwritten only when no request waits for the old frame and no model   *)
(* runs on it.                                                             *)
InputUntouchedUntilLate ==
  \A c \in Cameras :
    client[c] = "drained" /\ ~late[c] =>
      /\ \A i \in 1..Len(queue) : queue[i] # c
      /\ \A d \in Detectors : work[d] # c

(* detect never returns the result of an earlier request, late or not.     *)
(* TLC refutes it (README, section 6). *)
FreshResults ==
  \A c \in Cameras : client[c] = "idle" => answer[c] \in {0, request[c]}

(* Whoever holds the lock of the shared queue will release it.  TLC        *)
(* refutes it (README, section 6). *)
QueueLockIsReleased ==
  lock # Nobody => runner[lock] = "getting"

(* Every call of detect returns, whatever becomes of the detectors. *)
CallsReturn ==
  \A c \in Cameras : client[c] = "waiting" ~> client[c] = "idle"

(* A model that hangs is got rid of: the watchdog kills it, or Frigate is  *)
(* restarted. *)
HangsEnd ==
  \A d \in Detectors : runner[d] = "hung" ~> runner[d] # "hung"
=============================================================================
