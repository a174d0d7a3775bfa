---------------------------- MODULE SettingsForm ----------------------------
(***************************************************************************)
(* Editing and saving the configuration in the web client: the pending     *)
(* edits and Save All of Settings.tsx, the form of one section             *)
(* (BaseSection.tsx) and the go2rtc streams                                *)
(* (Go2RtcStreamsSettingsView.tsx).                                        *)
(*                                                                         *)
(* A key is a pending data key: a section, of one camera or global.  The   *)
(* value of a section is opaque.  A page that is left unmounts its form;   *)
(* a save it started goes on.  Each handler is cut where it awaits, and    *)
(* what it captured when it started is in its job.  The fetches of the     *)
(* client's copy of the configuration are those of the swr library: only   *)
(* the answer of the fetch asked for last is used, and one that failed is  *)
(* retried.                                                                *)
(***************************************************************************)
EXTENDS Naturals, FiniteSets

CONSTANTS
    Keys,              \* the pending data keys
    Go2rtc,            \* the key of the go2rtc streams
    Pages, PageOf,     \* the menu page a key is edited on
    Cameras, CameraOf, \* the camera of a key, or NoCamera if it is global
    Values, Default,   \* what a section may hold, and its default
    Slots,             \* bound: saves of single sections in flight
    NoCamera, NoData, NoJob, Nobody     \* null, undefined

ASSUME KeysAssumption ==
    /\ Go2rtc \in Keys
    /\ PageOf \in [Keys -> Pages]
    /\ CameraOf \in [Keys -> Cameras \cup {NoCamera}]
    /\ CameraOf[Go2rtc] = NoCamera
    /\ \A k \in Keys \ {Go2rtc} : PageOf[k] # PageOf[Go2rtc]
ASSUME ValuesAssumption ==
    /\ Default \in [Keys -> Values]
    /\ NoData \notin Values

Resources == {"config", "raw_paths"}
Requesters == Slots \cup {"all", "background"}

\* What a handler has captured: data is what it will send, NoData when there is
\* nothing left to send.
SectionJobs == [kind: {"save", "reset"}, key: Keys, data: Values \cup {NoData},
                phase: {"put", "config", "raw_paths"}, mounted: BOOLEAN]
AllJobs == [phase: {"put", "config"}, data: [Keys -> Values \cup {NoData}],
            todo: SUBSET Keys, toClear: SUBSET Keys]

ASSUME NullsAssumption ==
    /\ NoJob \notin SectionJobs \cup AllJobs
    /\ Nobody \notin Requesters
    /\ Slots \cap {"all", "background"} = {}

VARIABLES
    page, camera,      \* pageToggle, selectedCamera
    file,              \* what the server has stored
    cache,             \* the client's copy: swr's "config", "config/raw_paths"
    latest,            \* who asked last for a resource, or Nobody
    pending,           \* pendingDataBySection
    jobs,              \* the saves of single sections in flight
    all,               \* the Save All in flight
    savingAll,         \* isSavingAll
    anySaving,         \* isAnySectionSaving
    wanted             \* what the user set last, NoData if taken back or set
                       \* in haste (history)

view == <<page, camera>>
vars == <<view, file, cache, latest, pending, jobs, all, savingAll,
          anySaving, wanted>>
----------------------------------------------------------------------------
\* The resource a section's form reads its saved value from.
Source(k) == IF k = Go2rtc THEN "raw_paths" ELSE "config"

Visible(k) == PageOf[k] = page /\ CameraOf[k] \in {camera, NoCamera}

\* Mutant: a key with nothing pending differs from the saved value as well.
NothingIsAChange(k) == pending[k] # cache[k]

HasChanges(k) == pending[k] \notin {NoData, cache[k]}

\* isSaving: of the form on the screen, whichever camera it shows now.
IsSaving == \E s \in Slots : /\ jobs[s] # NoJob
                             /\ jobs[s].kind = "save"
                             /\ jobs[s].mounted

IsResetting == \E s \in Slots : /\ jobs[s] # NoJob
                                /\ jobs[s].kind = "reset"
                                /\ jobs[s].mounted

\* A request that took the key along is under way: it will clear the pending
\* entry, whatever has been set since.
Carried(k) == \/ \E s \in Slots : jobs[s] # NoJob /\ jobs[s].key = k
              \/ all # NoJob /\ k \in all.todo \cup all.toClear

\* An edit that the code drops: it is made while the key is carried, or back to
\* a value that the form takes for the saved one though the server has another.
Hasty(k, v) == Carried(k) \/ (v = cache[k] /\ cache[k] # file[k])

\* showSaveAllButtons: something is pending that is not on the screen.
ShowSaveAll == \E k \in Keys : pending[k] # NoData /\ ~Visible(k)

\* The client's copy and the open requests once `who' has its answer.
Answered(r, who, ok) ==
    [cache |-> IF ok /\ latest[r] = who
               THEN [k \in Keys |-> IF Source(k) = r THEN file[k] ELSE cache[k]]
               ELSE cache,
     latest |-> [latest EXCEPT ![r] = CASE latest[r] # who -> latest[r]
                                        [] latest[r] = who /\ ok -> Nobody
                                        [] OTHER -> "background"]]

Without(ks) == [k \in Keys |-> IF k \in ks THEN NoData ELSE pending[k]]

Init ==
    /\ page \in Pages /\ camera \in Cameras
    /\ file \in [Keys -> Values] /\ cache = file
    /\ latest = [r \in Resources |-> Nobody]
    /\ pending = [k \in Keys |-> NoData]
    /\ jobs = [s \in Slots |-> NoJob]
    /\ all = NoJob /\ savingAll = FALSE /\ anySaving = FALSE
    /\ wanted = [k \in Keys |-> NoData]
----------------------------------------------------------------------------
(* the user *)

Navigate(p, c) ==
    /\ <<p, c>> # view
    /\ page' = p /\ camera' = c
    /\ jobs' = [s \in Slots |-> IF jobs[s] = NoJob THEN NoJob
                                ELSE [jobs[s] EXCEPT !.mounted = @ /\ p = page]]
    /\ UNCHANGED <<file, cache, latest, pending, all, savingAll, anySaving,
                   wanted>>

\* The form of a section is disabled during its own save; the streams' is not.
Edit(k, v) ==
    /\ Visible(k)
    /\ k # Go2rtc => ~IsSaving
    /\ v # IF pending[k] = NoData THEN cache[k] ELSE pending[k]
    /\ pending' = [pending EXCEPT ![k] = IF v = cache[k] THEN NoData ELSE v]
    /\ wanted' = [wanted EXCEPT ![k] = IF Hasty(k, v) THEN NoData ELSE v]
    /\ UNCHANGED <<view, file, cache, latest, jobs, all, savingAll, anySaving>>

Undo(k) ==
    /\ Visible(k) /\ HasChanges(k)
    /\ ~IsSaving /\ ~savingAll
    /\ pending' = Without({k})
    /\ wanted' = [wanted EXCEPT ![k] = NoData]
    /\ UNCHANGED <<view, file, cache, latest, jobs, all, savingAll, anySaving>>

UndoAll ==
    /\ ShowSaveAll
    /\ ~savingAll /\ ~anySaving
    /\ pending' = Without(Keys)
    /\ wanted' = [k \in Keys |-> IF pending[k] # NoData THEN NoData
                                 ELSE wanted[k]]
    /\ UNCHANGED <<view, file, cache, latest, jobs, all, savingAll, anySaving>>

Save(s, k) ==
    /\ jobs[s] = NoJob
    /\ Visible(k) /\ HasChanges(k)
    /\ ~IsSaving /\ ~savingAll
    /\ jobs' = [jobs EXCEPT ![s] =
           [kind |-> "save", key |-> k, data |-> pending[k], phase |-> "put",
            mounted |-> TRUE]]
    /\ anySaving' = TRUE
    /\ UNCHANGED <<view, file, cache, latest, pending, all, savingAll, wanted>>

ResetToDefault(s, k) ==
    /\ jobs[s] = NoJob
    /\ k # Go2rtc
    /\ Visible(k) /\ ~HasChanges(k)
    /\ ~IsSaving /\ ~IsResetting
    /\ jobs' = [jobs EXCEPT ![s] =
           [kind |-> "reset", key |-> k, data |-> Default[k], phase |-> "put",
            mounted |-> TRUE]]
    /\ wanted' = [wanted EXCEPT ![k] = NoData]
    /\ UNCHANGED <<view, file, cache, latest, pending, all, savingAll,
                   anySaving>>

\* A section that changes nothing is not sent; the streams always are.
IsSent(k) == k = Go2rtc \/ pending[k] # cache[k]

SaveAll ==
    /\ ShowSaveAll
    /\ ~savingAll /\ ~anySaving
    /\ all' = [phase |-> "put",
               data |-> [k \in Keys |-> IF IsSent(k) THEN pending[k] ELSE NoData],
               todo |-> {k \in Keys : pending[k] # NoData}, toClear |-> {}]
    /\ savingAll' = TRUE
    /\ UNCHANGED <<view, file, cache, latest, pending, jobs, anySaving, wanted>>
----------------------------------------------------------------------------
(* a section's save and its reset *)

SaveEnds(s) == /\ jobs' = [jobs EXCEPT ![s] = NoJob]
               /\ anySaving' = FALSE

\* Mutant: a reset shows its result at once and asks for nothing.
ResetAsksForNothing(s) ==
    /\ jobs[s] # NoJob /\ jobs[s].phase = "put"
    /\ file' = [file EXCEPT ![jobs[s].key] = jobs[s].data]
    /\ \/ /\ jobs[s].kind = "save"
          /\ jobs' = [jobs EXCEPT ![s].phase = "config", ![s].data = NoData]
          /\ latest' = [latest EXCEPT !["config"] = s]
          /\ UNCHANGED pending
       \/ /\ jobs[s].kind = "reset"
          /\ jobs' = [jobs EXCEPT ![s] = NoJob]
          /\ pending' = Without({jobs[s].key})
          /\ UNCHANGED latest
    /\ UNCHANGED <<view, cache, all, savingAll, anySaving, wanted>>

PutAccepted(s) ==
    /\ jobs[s] # NoJob /\ jobs[s].phase = "put"
    /\ file' = [file EXCEPT ![jobs[s].key] = jobs[s].data]
    /\ \/ /\ jobs[s].kind = "save"
          /\ jobs' = [jobs EXCEPT ![s].phase = "config", ![s].data = NoData]
          /\ latest' = [latest EXCEPT !["config"] = s]
          /\ UNCHANGED pending
       \/ /\ jobs[s].kind = "reset"
          /\ jobs' = [jobs EXCEPT ![s] = NoJob]
          /\ latest' = [latest EXCEPT !["config"] = "background"]
          /\ pending' = Without({jobs[s].key})
    /\ UNCHANGED <<view, cache, all, savingAll, anySaving, wanted>>

\* Mutant: the flag is cleared after the refresh and not in the finally.
FailureKeepsTheFlag(s) ==
    /\ jobs[s] # NoJob /\ jobs[s].phase = "put"
    /\ jobs' = [jobs EXCEPT ![s] = NoJob]
    /\ UNCHANGED <<view, file, cache, latest, pending, all, savingAll,
                   anySaving, wanted>>

\* The server refuses it, or it does not get there.
PutFails(s) ==
    /\ jobs[s] # NoJob /\ jobs[s].phase = "put"
    /\ \/ jobs[s].kind = "save" /\ SaveEnds(s)
       \/ /\ jobs[s].kind = "reset"
          /\ jobs' = [jobs EXCEPT ![s] = NoJob]
          /\ UNCHANGED anySaving
    /\ UNCHANGED <<view, file, cache, latest, pending, all, savingAll, wanted>>

\* The refresh a save waits for is over; swr does not report its failure.
Refreshed(s) ==
    /\ jobs[s] # NoJob /\ jobs[s].phase \in Resources
    /\ \E ok \in BOOLEAN :
          LET a == Answered(jobs[s].phase, s, ok)
          IN /\ cache' = a.cache
             /\ \/ /\ jobs[s].key = Go2rtc /\ jobs[s].phase = "config"
                   /\ jobs' = [jobs EXCEPT ![s].phase = "raw_paths"]
                   /\ latest' = [a.latest EXCEPT !["raw_paths"] = s]
                   /\ UNCHANGED <<pending, anySaving>>
                \/ /\ jobs[s].key = Go2rtc /\ jobs[s].phase = "raw_paths"
                   /\ latest' = a.latest
                   /\ pending' = Without({jobs[s].key})
                   /\ SaveEnds(s)
                \/ /\ jobs[s].key # Go2rtc
                   /\ latest' = [a.latest EXCEPT !["raw_paths"] = "background"]
                   /\ pending' = Without({jobs[s].key})
                   /\ SaveEnds(s)
    /\ UNCHANGED <<view, file, all, savingAll, wanted>>
----------------------------------------------------------------------------
(* Save All *)

\* The streams go first.
NextToSave(k) == /\ all # NoJob /\ all.phase = "put"
                 /\ k \in all.todo
                 /\ Go2rtc \in all.todo => k = Go2rtc

\* One key is done; after the last the configuration is fetched.
Done(k, cleared) ==
    LET left == all.todo \ {k}
    IN /\ all' = [all EXCEPT !.todo = left, !.data[k] = NoData,
                             !.toClear = @ \cup cleared,
                             !.phase = IF left = {} THEN "config" ELSE "put"]
       /\ latest' = IF left = {} THEN [latest EXCEPT !["config"] = "all"]
                    ELSE latest

AllSaves(k) ==
    /\ NextToSave(k)
    /\ file' = IF all.data[k] = NoData THEN file ELSE [file EXCEPT ![k] = all.data[k]]
    /\ Done(k, {k})
    /\ UNCHANGED <<view, cache, pending, jobs, savingAll, anySaving, wanted>>

\* Mutant: a key is noted as saved before its PUT and not after it.
ClearedBeforeThePut(k) ==
    /\ NextToSave(k) /\ all.data[k] # NoData
    /\ Done(k, {k})
    /\ UNCHANGED <<view, file, cache, pending, jobs, savingAll, anySaving,
                   wanted>>

AllFailsToSave(k) ==
    /\ NextToSave(k) /\ all.data[k] # NoData
    /\ Done(k, {})
    /\ UNCHANGED <<view, file, cache, pending, jobs, savingAll, anySaving,
                   wanted>>

AllRefreshed ==
    /\ all # NoJob /\ all.phase = "config"
    /\ \E ok \in BOOLEAN :
          LET a == Answered("config", "all", ok)
          IN /\ cache' = a.cache
             /\ latest' = [a.latest EXCEPT !["raw_paths"] = "background"]
    /\ pending' = Without(all.toClear)
    /\ all' = NoJob /\ savingAll' = FALSE
    /\ UNCHANGED <<view, file, jobs, anySaving, wanted>>

\* A fetch no handler waits for.  One that fails is retried: it stays open.
BackgroundAnswer(r) ==
    /\ latest[r] = "background"
    /\ LET a == Answered(r, "background", TRUE)
       IN cache' = a.cache /\ latest' = a.latest
    /\ UNCHANGED <<view, file, pending, jobs, all, savingAll, anySaving, wanted>>
----------------------------------------------------------------------------
User ==
    \/ \E p \in Pages, c \in Cameras : Navigate(p, c)
    \/ \E k \in Keys, v \in Values : Edit(k, v)
    \/ \E k \in Keys : Undo(k)
    \/ UndoAll
    \/ \E s \in Slots, k \in Keys : Save(s, k) \/ ResetToDefault(s, k)
    \/ SaveAll

SectionStep(s) == PutAccepted(s) \/ PutFails(s) \/ Refreshed(s)

AllStep == \/ \E k \in Keys : AllSaves(k) \/ AllFailsToSave(k)
           \/ AllRefreshed

Next == \/ User
        \/ \E s \in Slots : SectionStep(s)
        \/ AllStep
        \/ \E r \in Resources : BackgroundAnswer(r)

Spec == Init /\ [][Next]_vars
----------------------------------------------------------------------------
TypeOK ==
    /\ page \in Pages /\ camera \in Cameras
    /\ file \in [Keys -> Values] /\ cache \in [Keys -> Values]
    /\ latest \in [Resources -> Requesters \cup {Nobody}]
    /\ pending \in [Keys -> Values \cup {NoData}]
    /\ jobs \in [Slots -> SectionJobs \cup {NoJob}]
    /\ all \in AllJobs \cup {NoJob}
    /\ savingAll \in BOOLEAN /\ anySaving \in BOOLEAN
    /\ wanted \in [Keys -> Values \cup {NoData}]

\* What the user set last, and did not take back, is still pending or is in
\* the server's file: no save that fails, is superseded, or runs beside
\* another drops it.  Of the edits made meanwhile, only those in haste are
\* dropped: of a key that a request under way has taken along, and back to a
\* value that is only in a stale copy.
NothingIsLost ==
    \A k \in Keys : wanted[k] # NoData /\ pending[k] = NoData
                       => file[k] = wanted[k]

\* The saved value a form shows is the server's unless something that will
\* fetch it is on its way: a save, Save All or a request that is open.
StaleOnlyWhileWorking ==
    \A k \in Keys : cache[k] # file[k] =>
        \/ latest[Source(k)] # Nobody
        \/ all # NoJob
        \/ \E s \in Slots : jobs[s] # NoJob /\ jobs[s].kind = "save"

\* "A section is saving" is only on while one is, and "saving all" while Save
\* All has something left to wait for: the flag one form sets and another
\* clears, or a request that fails, never keeps the buttons disabled.
ButtonsAreNotStuck ==
    /\ anySaving => \E s \in Slots : jobs[s] # NoJob /\ jobs[s].kind = "save"
    /\ savingAll => all # NoJob /\ (all.todo # {} \/ all.phase = "config")

\* The comment in handleSaveAll: the refresh "must complete before clearing
\* the pending entries so consumers don't observe a moment where pending is
\* empty AND config is still stale".  TLC refutes it (README, section 6).
NeverEmptyAndStale ==
    \A k \in Keys : pending[k] = NoData /\ wanted[k] # NoData
                       => cache[k] = file[k]
=============================================================================
