-------------------------- MODULE SettingsForm_proofs --------------------------
(***************************************************************************)
(* Proofs about SettingsForm, for any sections, pages, cameras and values  *)
(* and any number of saves in flight.                                      *)
(***************************************************************************)
EXTENDS SettingsForm, TLAPS

(* A reset asks for nothing after its PUT and is not offered for the       *)
(* streams; only they wait for a second refresh.  What a PUT sends is a    *)
(* value.                                                                  *)
JobsAreSane ==
  \A s \in Slots : jobs[s] # NoJob =>
    /\ jobs[s].kind = "reset" => jobs[s].key # Go2rtc /\ jobs[s].phase = "put"
    /\ jobs[s].phase = "raw_paths" => jobs[s].key = Go2rtc
    /\ jobs[s].phase = "put" => jobs[s].data # NoData

(* Which request will bring the saved sections that are not in the copy.   *)
(* StaleOnlyWhileWorking says no more than that there is some work left,   *)
(* which is not inductive: the work that ends must not have been the one   *)
(* that was counted on.                                                    *)
ConfigFollows ==
  \A k \in Keys : k # Go2rtc /\ cache[k] # file[k] =>
    \/ latest["config"] # Nobody
    \/ all # NoJob /\ all.phase = "put"
StreamsFollow ==
  cache[Go2rtc] # file[Go2rtc] =>
    \/ latest["raw_paths"] # Nobody
    \/ all # NoJob
    \/ \E s \in Slots : /\ jobs[s] # NoJob /\ jobs[s].kind = "save"
                        /\ jobs[s].key = Go2rtc /\ jobs[s].phase = "config"

Inv == /\ TypeOK /\ JobsAreSane /\ ConfigFollows /\ StreamsFollow
       /\ ButtonsAreNotStuck

(* What the answer to a fetch does: nothing to the other resource, nothing *)
(* but freshness to its own, and no request is open only if the copy is    *)
(* fresh or was without one before.                                        *)
LEMMA Answer ==
  ASSUME TypeOK, NEW r \in Resources, NEW who \in Requesters, NEW ok \in BOOLEAN
  PROVE  /\ Answered(r, who, ok).cache \in [Keys -> Values]
         /\ Answered(r, who, ok).latest \in [Resources -> Requesters \cup {Nobody}]
         /\ \A q \in Resources : q # r => Answered(r, who, ok).latest[q] = latest[q]
         /\ \A k \in Keys : Answered(r, who, ok).cache[k] \in {cache[k], file[k]}
         /\ \A k \in Keys : Source(k) # r => Answered(r, who, ok).cache[k] = cache[k]
         /\ Answered(r, who, ok).latest[r] = Nobody
              => \/ latest[r] = Nobody /\ Answered(r, who, ok).cache = cache
                 \/ \A k \in Keys : Source(k) = r
                                      => Answered(r, who, ok).cache[k] = file[k]
<1>1. who # Nobody /\ "background" \in Requesters /\ "background" # Nobody
  BY NullsAssumption DEF Requesters
<1>2. CASE latest[r] # who
  <2>1. Answered(r, who, ok) = [cache |-> cache, latest |-> [latest EXCEPT ![r] = latest[r]]]
    BY <1>2 DEF Answered
  <2> QED
    BY <1>2, <2>1 DEF TypeOK
<1>3. CASE latest[r] = who /\ ok
  <2>1. Answered(r, who, ok) =
          [cache |-> [k \in Keys |-> IF Source(k) = r THEN file[k] ELSE cache[k]],
           latest |-> [latest EXCEPT ![r] = Nobody]]
    BY <1>3 DEF Answered
  <2> DEFINE c == [k \in Keys |-> IF Source(k) = r THEN file[k] ELSE cache[k]]
             l == [latest EXCEPT ![r] = Nobody]
  <2>2. c \in [Keys -> Values] /\ l \in [Resources -> Requesters \cup {Nobody}]
    BY DEF TypeOK
  <2>3. \A k \in Keys : c[k] = IF Source(k) = r THEN file[k] ELSE cache[k]
    OBVIOUS
  <2>4. \A q \in Resources : q # r => l[q] = latest[q]
    BY DEF TypeOK
  <2>5. Answered(r, who, ok).cache = c /\ Answered(r, who, ok).latest = l
    BY <2>1
  <2> HIDE DEF c, l
  <2> QED
    BY <2>2, <2>3, <2>4, <2>5
<1>4. CASE latest[r] = who /\ ~ok
  <2>1. Answered(r, who, ok) = [cache |-> cache,
                                latest |-> [latest EXCEPT ![r] = "background"]]
    BY <1>4 DEF Answered
  <2> QED
    BY <1>1, <1>4, <2>1 DEF TypeOK
<1> QED
  BY <1>2, <1>3, <1>4

(* A job is one of SectionJobs, never the value that stands for none.      *)
LEMMA JobTypes ==
  ASSUME TypeOK
  PROVE  /\ \A s \in Slots : jobs[s] # NoJob => jobs[s] \in SectionJobs
         /\ \A j \in SectionJobs : j # NoJob
         /\ all # NoJob => all \in AllJobs
         /\ \A j \in AllJobs : j # NoJob
  BY NullsAssumption DEF TypeOK

(* What the user does by hand starts no request: pages, edits, undo.       *)
LEMMA HandsInv ==
  ASSUME Inv, \/ \E p \in Pages, c \in Cameras : Navigate(p, c)
              \/ \E k \in Keys, v \in Values : Edit(k, v)
              \/ \E k \in Keys : Undo(k)
              \/ UndoAll
  PROVE  Inv'
<1> USE DEF Inv
<1>1. ASSUME NEW p \in Pages, NEW c \in Cameras, Navigate(p, c)
      PROVE  Inv'
  <2>1. /\ page' = p /\ camera' = c
        /\ UNCHANGED <<file, cache, latest, pending, all, savingAll, anySaving, wanted>>
    BY <1>1 DEF Navigate
  <2>2. ASSUME NEW s \in Slots
        PROVE  IF jobs[s] = NoJob THEN jobs'[s] = NoJob
               ELSE /\ jobs'[s] \in SectionJobs /\ jobs'[s] # NoJob
                    /\ jobs'[s].kind = jobs[s].kind /\ jobs'[s].key = jobs[s].key
                    /\ jobs'[s].phase = jobs[s].phase /\ jobs'[s].data = jobs[s].data
    <3>1. jobs'[s] = IF jobs[s] = NoJob THEN NoJob
                     ELSE [jobs[s] EXCEPT !.mounted = @ /\ p = page]
      BY <1>1 DEF Navigate
    <3>2. CASE jobs[s] # NoJob
      <4>1. jobs[s] \in SectionJobs
        BY <3>2, JobTypes
      <4>2. [jobs[s] EXCEPT !.mounted = @ /\ p = page] \in SectionJobs
        BY <4>1 DEF SectionJobs
      <4>3. jobs'[s] = [jobs[s] EXCEPT !.mounted = @ /\ p = page]
        BY <3>1, <3>2
      <4> QED
        BY <3>2, <4>1, <4>2, <4>3, JobTypes DEF SectionJobs
    <3> QED
      BY <3>1, <3>2
  <2>3. jobs' \in [Slots -> SectionJobs \cup {NoJob}]
    <3>1. jobs' = [s \in Slots |-> IF jobs[s] = NoJob THEN NoJob
                                   ELSE [jobs[s] EXCEPT !.mounted = @ /\ p = page]]
      BY <1>1 DEF Navigate
    <3> QED
      BY <2>2, <3>1
  <2>4. TypeOK'
    BY <2>1, <2>3 DEF TypeOK
  <2>5. JobsAreSane'
    BY <2>2 DEF JobsAreSane
  <2>6. ConfigFollows' /\ StreamsFollow' /\ ButtonsAreNotStuck'
    BY <2>1, <2>2 DEF ConfigFollows, StreamsFollow, ButtonsAreNotStuck
  <2> QED
    BY <2>4, <2>5, <2>6
<1>2. ASSUME NEW k \in Keys, NEW v \in Values, Edit(k, v)
      PROVE  Inv'
  BY <1>2 DEF Edit, view, TypeOK, JobsAreSane, ConfigFollows, StreamsFollow,
              ButtonsAreNotStuck
<1>3. ASSUME NEW k \in Keys, Undo(k)
      PROVE  Inv'
  BY <1>3 DEF Undo, Without, view, TypeOK, JobsAreSane, ConfigFollows, StreamsFollow,
              ButtonsAreNotStuck
<1>4. CASE UndoAll
  BY <1>4 DEF UndoAll, Without, view, TypeOK, JobsAreSane, ConfigFollows, StreamsFollow,
              ButtonsAreNotStuck
<1> QED
  BY <1>1, <1>2, <1>3, <1>4

(* Requests start: the one that is added is sane, those that were counted  *)
(* on are still there.                                                     *)
LEMMA StartsInv ==
  ASSUME Inv, \/ \E s \in Slots, k \in Keys : Save(s, k) \/ ResetToDefault(s, k)
              \/ SaveAll
  PROVE  Inv'
<1> USE DEF Inv
<1>1. ASSUME NEW s \in Slots, NEW k \in Keys, Save(s, k) PROVE Inv'
  <2> DEFINE j == [kind |-> "save", key |-> k, data |-> pending[k], phase |-> "put",
                   mounted |-> TRUE]
  <2>1. /\ j \in SectionJobs /\ j.kind = "save" /\ j.phase = "put" /\ j.key = k
        /\ j.data # NoData
    BY <1>1 DEF Save, HasChanges, TypeOK, SectionJobs
  <2>2. jobs' = [jobs EXCEPT ![s] = j] /\ jobs[s] = NoJob /\ anySaving' = TRUE
    BY <1>1 DEF Save
  <2>3. UNCHANGED <<page, camera, file, cache, latest, pending, all, savingAll, wanted>>
    BY <1>1 DEF Save, view
  <2>4. j # NoJob
    BY <2>1, JobTypes
  <2> HIDE DEF j
  <2>5. \A t \in Slots : jobs'[t] = IF t = s THEN j ELSE jobs[t]
    BY <2>2 DEF TypeOK
  <2>6. TypeOK'
    BY <2>1, <2>2, <2>3 DEF TypeOK
  <2>7. JobsAreSane'
    BY <2>1, <2>5 DEF JobsAreSane
  <2>8. ConfigFollows' /\ StreamsFollow'
    BY <2>2, <2>3, <2>5 DEF ConfigFollows, StreamsFollow
  <2>9. ButtonsAreNotStuck'
    BY <2>1, <2>3, <2>4, <2>5 DEF ButtonsAreNotStuck
  <2> QED
    BY <2>6, <2>7, <2>8, <2>9
<1>2. ASSUME NEW s \in Slots, NEW k \in Keys, ResetToDefault(s, k) PROVE Inv'
  <2> DEFINE j == [kind |-> "reset", key |-> k, data |-> Default[k], phase |-> "put",
                   mounted |-> TRUE]
  <2>1. /\ j \in SectionJobs /\ j.kind = "reset" /\ j.phase = "put" /\ j.key = k
        /\ j.data # NoData
    BY <1>2, ValuesAssumption DEF SectionJobs
  <2>2. /\ jobs' = [jobs EXCEPT ![s] = j] /\ jobs[s] = NoJob /\ k # Go2rtc
        /\ wanted' = [wanted EXCEPT ![k] = NoData]
    BY <1>2 DEF ResetToDefault
  <2>3. UNCHANGED <<page, camera, file, cache, latest, pending, all, savingAll,
                    anySaving>>
    BY <1>2 DEF ResetToDefault, view
  <2> HIDE DEF j
  <2>4. \A t \in Slots : jobs'[t] = IF t = s THEN j ELSE jobs[t]
    BY <2>2 DEF TypeOK
  <2>5. TypeOK'
    BY <2>1, <2>2, <2>3 DEF TypeOK
  <2>6. JobsAreSane'
    BY <2>1, <2>2, <2>4 DEF JobsAreSane
  <2>7. ConfigFollows' /\ StreamsFollow' /\ ButtonsAreNotStuck'
    BY <2>2, <2>3, <2>4 DEF ConfigFollows, StreamsFollow, ButtonsAreNotStuck
  <2> QED
    BY <2>5, <2>6, <2>7
<1>3. CASE SaveAll
  <2> DEFINE d == [k \in Keys |-> IF IsSent(k) THEN pending[k] ELSE NoData]
             j == [phase |-> "put", data |-> d,
                   todo |-> {k \in Keys : pending[k] # NoData}, toClear |-> {}]
  <2>0. d \in [Keys -> Values \cup {NoData}]
    BY DEF TypeOK
  <2>9. j.todo # {}
    BY <1>3 DEF SaveAll, ShowSaveAll
  <2>2. all' = j /\ savingAll' = TRUE
    BY <1>3 DEF SaveAll
  <2> HIDE DEF d
  <2>1. j \in AllJobs /\ j.phase = "put"
    BY <2>0 DEF AllJobs
  <2>3. UNCHANGED <<page, camera, file, cache, latest, pending, jobs, anySaving, wanted>>
    BY <1>3 DEF SaveAll, view
  <2>4. j # NoJob
    BY <2>1, JobTypes
  <2> HIDE DEF j
  <2>5. TypeOK'
    BY <2>1, <2>2, <2>3 DEF TypeOK
  <2>6. JobsAreSane' /\ ConfigFollows' /\ StreamsFollow' /\ ButtonsAreNotStuck'
    BY <2>1, <2>2, <2>3, <2>4, <2>9
    DEF JobsAreSane, ConfigFollows, StreamsFollow, ButtonsAreNotStuck
  <2> QED
    BY <2>5, <2>6
<1> QED
  BY <1>1, <1>2, <1>3

(* What ends with a job that is gone: its flag, if it was a save's.        *)
LEMMA JobGone ==
  ASSUME Inv, NEW s \in Slots, jobs' = [jobs EXCEPT ![s] = NoJob]
  PROVE  /\ jobs' \in [Slots -> SectionJobs \cup {NoJob}]
         /\ \A t \in Slots : jobs'[t] = IF t = s THEN NoJob ELSE jobs[t]
         /\ JobsAreSane'
  BY DEF Inv, TypeOK, JobsAreSane

(* A PUT has its answer. *)
LEMMA PutInv ==
  ASSUME Inv, NEW s \in Slots, PutAccepted(s) \/ PutFails(s)
  PROVE  Inv'
<1> USE DEF Inv
<1>1. jobs[s] # NoJob /\ jobs[s].phase = "put" /\ jobs[s] \in SectionJobs
  BY JobTypes DEF PutAccepted, PutFails
<1>2. jobs[s].key \in Keys /\ jobs[s].data \in Values /\ jobs[s].kind \in {"save", "reset"}
  BY <1>1 DEF SectionJobs, JobsAreSane
<1>3. s \in Requesters /\ "background" \in Requesters
  BY DEF Requesters
<1>4. CASE PutAccepted(s)
  <2>1. /\ file' = [file EXCEPT ![jobs[s].key] = jobs[s].data]
        /\ UNCHANGED <<page, camera, cache, all, savingAll, anySaving, wanted>>
    BY <1>4 DEF PutAccepted, view
  <2>2. file' \in [Keys -> Values]
    BY <1>2, <2>1 DEF TypeOK
  <2>3. \A k \in Keys : k # jobs[s].key => file'[k] = file[k]
    BY <2>1 DEF TypeOK
  <2>4. CASE jobs[s].kind = "save"
    <3> DEFINE j == [jobs[s] EXCEPT !.phase = "config", !.data = NoData]
    <3>1. j \in SectionJobs /\ j.kind = "save" /\ j.key = jobs[s].key /\ j.phase = "config"
      BY <1>1, <2>4 DEF SectionJobs
    <3>2. /\ jobs' = [jobs EXCEPT ![s] = j]
          /\ latest' = [latest EXCEPT !["config"] = s] /\ pending' = pending
      BY <1>4, <2>4 DEF PutAccepted
    <3>3. j # NoJob
      BY <3>1, JobTypes
    <3> HIDE DEF j
    <3>4. \A t \in Slots : jobs'[t] = IF t = s THEN j ELSE jobs[t]
      BY <3>2 DEF TypeOK
    <3>5. latest'["config"] = s /\ latest'["raw_paths"] = latest["raw_paths"]
      BY <3>2 DEF TypeOK, Resources
    <3>6. TypeOK'
      BY <1>3, <2>1, <2>2, <3>1, <3>2 DEF TypeOK
    <3>7. JobsAreSane' /\ ButtonsAreNotStuck'
      BY <2>1, <3>1, <3>3, <3>4 DEF JobsAreSane, ButtonsAreNotStuck
    <3>8. ConfigFollows'
      BY <1>3, <3>5, NullsAssumption DEF ConfigFollows, Requesters
    <3>9. StreamsFollow'
      <4>1. CASE jobs[s].key = Go2rtc
        BY <3>1, <3>3, <3>4, <4>1 DEF StreamsFollow
      <4>2. CASE jobs[s].key # Go2rtc
        <5>1. file'[Go2rtc] = file[Go2rtc]
          BY <2>3, <4>2, KeysAssumption
        <5>2. ASSUME NEW t \in Slots, jobs[t] # NoJob, jobs[t].key = Go2rtc
              PROVE  jobs'[t] = jobs[t]
          BY <3>4, <4>2, <5>2
        <5> QED
          BY <2>1, <3>5, <5>1, <5>2 DEF StreamsFollow
      <4> QED
        BY <4>1, <4>2
    <3> QED
      BY <3>6, <3>7, <3>8, <3>9
  <2>5. CASE jobs[s].kind = "reset"
    <3>1. /\ jobs' = [jobs EXCEPT ![s] = NoJob]
          /\ latest' = [latest EXCEPT !["config"] = "background"]
          /\ pending' = Without({jobs[s].key})
      BY <1>4, <2>5 DEF PutAccepted
    <3>2. latest'["config"] = "background" /\ latest'["raw_paths"] = latest["raw_paths"]
      BY <3>1 DEF TypeOK, Resources
    <3>3. pending' \in [Keys -> Values \cup {NoData}]
      BY <3>1 DEF TypeOK, Without
    <3>4. TypeOK'
      BY <1>3, <2>1, <2>2, <3>1, <3>3, JobGone DEF TypeOK
    <3>5. JobsAreSane' /\ ButtonsAreNotStuck'
      BY <2>1, <2>5, <3>1, JobGone DEF ButtonsAreNotStuck
    <3>6. ConfigFollows'
      BY <1>3, <3>2, NullsAssumption DEF ConfigFollows
    <3>7. StreamsFollow'
      <4>1. file'[Go2rtc] = file[Go2rtc]
        BY <1>1, <2>3, <2>5, KeysAssumption DEF JobsAreSane
      <4> QED
        BY <2>1, <2>5, <3>1, <3>2, <4>1, JobGone DEF StreamsFollow
    <3> QED
      BY <3>4, <3>5, <3>6, <3>7
  <2> QED
    BY <1>2, <2>4, <2>5
<1>5. CASE PutFails(s)
  <2>1. /\ UNCHANGED <<page, camera, file, cache, latest, pending, all, savingAll, wanted>>
        /\ jobs' = [jobs EXCEPT ![s] = NoJob]
        /\ \/ anySaving' = FALSE
           \/ anySaving' = anySaving /\ jobs[s].kind = "reset"
    <3>1. CASE jobs[s].kind = "save" /\ SaveEnds(s)
      BY <1>5, <3>1 DEF PutFails, SaveEnds, view
    <3>2. CASE /\ jobs[s].kind = "reset"
               /\ jobs' = [jobs EXCEPT ![s] = NoJob] /\ UNCHANGED anySaving
      BY <1>5, <3>2 DEF PutFails, view
    <3> QED
      BY <1>5, <3>1, <3>2 DEF PutFails
  <2>2. TypeOK' /\ JobsAreSane'
    BY <2>1, JobGone DEF TypeOK
  <2>3. ConfigFollows' /\ ButtonsAreNotStuck'
    BY <2>1, JobGone DEF ConfigFollows, ButtonsAreNotStuck
  <2>4. StreamsFollow'
    BY <1>1, <2>1, JobGone DEF StreamsFollow
  <2> QED
    BY <2>2, <2>3, <2>4
<1> QED
  BY <1>4, <1>5

(* The refresh of a save is over. *)
LEMMA RefreshedInv ==
  ASSUME Inv, NEW s \in Slots, Refreshed(s)
  PROVE  Inv'
<1> USE DEF Inv
<1>1. PICK ok \in BOOLEAN :
        LET a == Answered(jobs[s].phase, s, ok)
        IN /\ cache' = a.cache
           /\ \/ /\ jobs[s].key = Go2rtc /\ jobs[s].phase = "config"
                 /\ jobs' = [jobs EXCEPT ![s].phase = "raw_paths"]
                 /\ latest' = [a.latest EXCEPT !["raw_paths"] = s]
                 /\ UNCHANGED <<pending, anySaving>>
              \/ /\ jobs[s].key = Go2rtc /\ jobs[s].phase = "raw_paths"
                 /\ latest' = a.latest
                 /\ pending' = Without({jobs[s].key})
                 /\ SaveEnds(s)
              \/ /\ jobs[s].key # Go2rtc
                 /\ latest' = [a.latest EXCEPT !["raw_paths"] = "background"]
                 /\ pending' = Without({jobs[s].key})
                 /\ SaveEnds(s)
  BY DEF Refreshed
<1> DEFINE r == jobs[s].phase
           a == Answered(r, s, ok)
<1>2. /\ jobs[s] # NoJob /\ r \in Resources
      /\ UNCHANGED <<page, camera, file, all, savingAll, wanted>>
  BY DEF Refreshed, view
<1>3. jobs[s] \in SectionJobs /\ jobs[s].key \in Keys
  BY <1>2, JobTypes DEF SectionJobs
<1>4. jobs[s].kind = "save"
  BY <1>2, <1>3 DEF JobsAreSane, SectionJobs, Resources
<1>5. /\ s \in Requesters /\ s # Nobody
      /\ "background" \in Requesters /\ "background" # Nobody
  BY NullsAssumption DEF Requesters
<1>6. /\ a.cache \in [Keys -> Values]
      /\ a.latest \in [Resources -> Requesters \cup {Nobody}]
      /\ \A q \in Resources : q # r => a.latest[q] = latest[q]
      /\ \A k \in Keys : a.cache[k] \in {cache[k], file[k]}
      /\ \A k \in Keys : Source(k) # r => a.cache[k] = cache[k]
      /\ a.latest[r] = Nobody
           => \/ latest[r] = Nobody /\ a.cache = cache
              \/ \A k \in Keys : Source(k) = r => a.cache[k] = file[k]
  BY <1>2, <1>5, Answer
<1>7. cache' = a.cache
  BY <1>1
<1>8. /\ latest' \in [Resources -> Requesters \cup {Nobody}]
      /\ latest'["config"] = a.latest["config"]
  BY <1>1, <1>5, <1>6 DEF Resources
<1> HIDE DEF a, r
<1>9. ConfigFollows'
  <2>1. CASE r = "config"
    <3>1. ASSUME latest'["config"] = Nobody, NEW k \in Keys, k # Go2rtc,
                 a.cache[k] # file[k]
          PROVE  cache[k] # file[k] /\ latest["config"] = Nobody
      BY <1>6, <1>8, <2>1, <3>1 DEF Source
    <3> QED
      <4> SUFFICES ASSUME NEW k \in Keys, k # Go2rtc, cache'[k] # file'[k],
                          latest'["config"] = Nobody
                   PROVE  all' # NoJob /\ all'.phase = "put"
        BY DEF ConfigFollows
      <4>1. cache[k] # file[k] /\ latest["config"] = Nobody
        BY <1>2, <1>7, <3>1
      <4> QED
        BY <1>2, <4>1 DEF ConfigFollows
  <2>2. CASE r = "raw_paths"
    <3>1. latest'["config"] = latest["config"]
      BY <1>6, <1>8, <2>2 DEF Resources
    <3>2. \A k \in Keys : k # Go2rtc => a.cache[k] = cache[k]
      BY <1>6, <2>2 DEF Source
    <3> QED
      BY <1>2, <1>7, <3>1, <3>2 DEF ConfigFollows
  <2> QED
    BY <1>2, <2>1, <2>2 DEF Resources, r
<1>10. CASE jobs[s].key = Go2rtc /\ r = "config"
  <2> DEFINE j == [jobs[s] EXCEPT !.phase = "raw_paths"]
  <2>1. /\ jobs' = [jobs EXCEPT ![s] = j] /\ UNCHANGED <<pending, anySaving>>
        /\ latest' = [a.latest EXCEPT !["raw_paths"] = s]
    BY <1>1, <1>10 DEF a, r, Resources
  <2>2. /\ j \in SectionJobs /\ j.kind = "save" /\ j.key = Go2rtc
        /\ j.phase = "raw_paths"
    BY <1>3, <1>4, <1>10 DEF SectionJobs
  <2>3. j # NoJob
    BY <2>2, JobTypes
  <2> HIDE DEF j
  <2>4. \A t \in Slots : jobs'[t] = IF t = s THEN j ELSE jobs[t]
    BY <2>1 DEF TypeOK
  <2>5. TypeOK'
    BY <1>2, <1>6, <1>7, <1>8, <2>1, <2>2 DEF TypeOK
  <2>6. JobsAreSane' /\ ButtonsAreNotStuck'
    BY <1>2, <2>1, <2>2, <2>3, <2>4 DEF JobsAreSane, ButtonsAreNotStuck
  <2>7. StreamsFollow'
    BY <1>5, <1>6, <2>1 DEF StreamsFollow, Resources
  <2> QED
    BY <1>9, <2>5, <2>6, <2>7
<1>11. CASE ~(jobs[s].key = Go2rtc /\ r = "config")
  <2>1. /\ jobs' = [jobs EXCEPT ![s] = NoJob] /\ anySaving' = FALSE
        /\ pending' = Without({jobs[s].key})
        /\ \/ jobs[s].key = Go2rtc /\ r = "raw_paths" /\ latest' = a.latest
           \/ /\ jobs[s].key # Go2rtc
              /\ latest' = [a.latest EXCEPT !["raw_paths"] = "background"]
    BY <1>1, <1>11 DEF a, r, SaveEnds
  <2>2. pending' \in [Keys -> Values \cup {NoData}]
    BY <2>1 DEF TypeOK, Without
  <2>3. TypeOK' /\ JobsAreSane'
    BY <1>2, <1>6, <1>7, <1>8, <2>1, <2>2, JobGone DEF TypeOK
  <2>4. ButtonsAreNotStuck'
    BY <1>2, <2>1 DEF ButtonsAreNotStuck
  <2>5. StreamsFollow'
    <3>1. CASE jobs[s].key # Go2rtc
      BY <1>5, <1>6, <2>1, <3>1 DEF StreamsFollow, Resources
    <3>2. CASE jobs[s].key = Go2rtc /\ r = "raw_paths" /\ latest' = a.latest
      <4>1. ASSUME latest'["raw_paths"] = Nobody, a.cache[Go2rtc] # file[Go2rtc]
            PROVE  cache[Go2rtc] # file[Go2rtc] /\ latest["raw_paths"] = Nobody
        BY <1>6, <3>2, <4>1, KeysAssumption DEF Source
      <4>2. ASSUME NEW t \in Slots, jobs[t] # NoJob, jobs[t].phase = "config"
            PROVE  jobs'[t] = jobs[t]
        BY <2>1, <3>2, <4>2, JobGone DEF r
      <4> QED
        BY <1>2, <1>7, <4>1, <4>2 DEF StreamsFollow
    <3> QED
      BY <2>1, <3>1, <3>2
  <2> QED
    BY <1>9, <2>3, <2>4, <2>5
<1> QED
  BY <1>10, <1>11

(* Save All goes on: while it sends, it is itself the work that is left;   *)
(* then it asks for both resources.                                        *)
LEMMA AllSendsInv ==
  ASSUME Inv, NEW k \in Keys, AllSaves(k) \/ AllFailsToSave(k)
  PROVE  Inv'
<1> USE DEF Inv
<1>0. all # NoJob /\ all \in AllJobs
  BY JobTypes DEF AllSaves, AllFailsToSave, NextToSave
<1> DEFINE left == all.todo \ {k}
<1>1. /\ UNCHANGED <<page, camera, cache, pending, jobs, savingAll, anySaving, wanted>>
      /\ k \in all.todo /\ all.phase = "put"
      /\ \/ file' = file
         \/ all.data[k] # NoData /\ file' = [file EXCEPT ![k] = all.data[k]]
  BY DEF AllSaves, AllFailsToSave, NextToSave, view
<1>2. PICK cleared \in {{}, {k}} : Done(k, cleared)
  BY DEF AllSaves, AllFailsToSave
<1> DEFINE j == [all EXCEPT !.todo = left, !.data[k] = NoData, !.toClear = @ \cup cleared,
                            !.phase = IF left = {} THEN "config" ELSE "put"]
<1>3. /\ all' = j
      /\ latest' = IF left = {} THEN [latest EXCEPT !["config"] = "all"] ELSE latest
  BY <1>2 DEF Done
<1>4. j \in AllJobs /\ j.todo = left /\ j.phase = IF left = {} THEN "config" ELSE "put"
  BY <1>0, <1>1 DEF AllJobs
<1>5. j # NoJob
  BY <1>4, JobTypes
<1> HIDE DEF j
<1>6. "all" \in Requesters /\ "all" # Nobody
  BY NullsAssumption DEF Requesters
<1>7. file' \in [Keys -> Values]
  <2>1. CASE file' = file
    BY <2>1 DEF TypeOK
  <2>2. CASE all.data[k] # NoData /\ file' = [file EXCEPT ![k] = all.data[k]]
    <3>1. all.data[k] \in Values
      BY <1>0, <2>2 DEF AllJobs
    <3> QED
      BY <2>2, <3>1 DEF TypeOK
  <2> QED
    BY <1>1, <2>1, <2>2
<1>8. latest' \in [Resources -> Requesters \cup {Nobody}]
  BY <1>3, <1>6 DEF TypeOK
<1>9. TypeOK'
  BY <1>1, <1>3, <1>4, <1>7, <1>8 DEF TypeOK
<1>10. JobsAreSane' /\ ButtonsAreNotStuck' /\ StreamsFollow'
  BY <1>1, <1>3, <1>4, <1>5 DEF JobsAreSane, ButtonsAreNotStuck, StreamsFollow
<1>11. ConfigFollows'
  BY <1>3, <1>4, <1>5, <1>6 DEF ConfigFollows, TypeOK, Resources
<1> QED
  BY <1>9, <1>10, <1>11

(* Save All is over, or a fetch that nobody waits for has its answer.      *)
LEMMA AllRefreshedInv ==
  ASSUME Inv, AllRefreshed
  PROVE  Inv'
<1> USE DEF Inv
<1>1. /\ all # NoJob /\ all.phase = "config" /\ all' = NoJob /\ savingAll' = FALSE
      /\ pending' = Without(all.toClear)
      /\ UNCHANGED <<page, camera, file, jobs, anySaving, wanted>>
  BY DEF AllRefreshed, view
<1>2. PICK ok \in BOOLEAN :
        /\ cache' = Answered("config", "all", ok).cache
        /\ latest' = [Answered("config", "all", ok).latest
                        EXCEPT !["raw_paths"] = "background"]
  BY DEF AllRefreshed
<1> DEFINE a == Answered("config", "all", ok)
<1>3. /\ "all" \in Requesters /\ "config" \in Resources
      /\ "background" \in Requesters /\ "background" # Nobody
  BY NullsAssumption DEF Requesters, Resources
<1>4. /\ a.cache \in [Keys -> Values]
      /\ a.latest \in [Resources -> Requesters \cup {Nobody}]
      /\ a.latest["config"] = Nobody
           => \/ latest["config"] = Nobody /\ a.cache = cache
              \/ \A k \in Keys : Source(k) = "config" => a.cache[k] = file[k]
      /\ \A k \in Keys : a.cache[k] \in {cache[k], file[k]}
  BY <1>3, Answer
<1>5. cache' = a.cache /\ latest' = [a.latest EXCEPT !["raw_paths"] = "background"]
  BY <1>2
<1> HIDE DEF a
<1>6. /\ latest' \in [Resources -> Requesters \cup {Nobody}]
      /\ latest'["config"] = a.latest["config"] /\ latest'["raw_paths"] = "background"
  BY <1>3, <1>4, <1>5 DEF Resources
<1>7. pending' \in [Keys -> Values \cup {NoData}]
  BY <1>1 DEF TypeOK, Without
<1>8. TypeOK'
  BY <1>1, <1>4, <1>5, <1>6, <1>7 DEF TypeOK
<1>9. JobsAreSane' /\ ButtonsAreNotStuck' /\ StreamsFollow'
  BY <1>1, <1>3, <1>6 DEF JobsAreSane, ButtonsAreNotStuck, StreamsFollow
<1>10. ConfigFollows'
  <2> SUFFICES ASSUME NEW k \in Keys, k # Go2rtc, cache'[k] # file'[k],
                      latest'["config"] = Nobody
               PROVE  FALSE
    BY DEF ConfigFollows
  <2>1. cache[k] # file[k] /\ latest["config"] = Nobody
    BY <1>1, <1>4, <1>5, <1>6 DEF Source
  <2> QED
    BY <1>1, <2>1 DEF ConfigFollows
<1> QED
  BY <1>8, <1>9, <1>10

LEMMA BackgroundInv ==
  ASSUME Inv, NEW r \in Resources, BackgroundAnswer(r)
  PROVE  Inv'
<1> USE DEF Inv
<1>1. /\ UNCHANGED <<page, camera, file, pending, jobs, all, savingAll, anySaving, wanted>>
      /\ latest[r] = "background"
  BY DEF BackgroundAnswer, view
<1> DEFINE a == Answered(r, "background", TRUE)
<1>2. cache' = a.cache /\ latest' = a.latest
  BY DEF BackgroundAnswer
<1>3. "background" \in Requesters /\ "background" # Nobody
  BY NullsAssumption DEF Requesters
<1>4. /\ a.cache \in [Keys -> Values]
      /\ a.latest \in [Resources -> Requesters \cup {Nobody}]
      /\ \A q \in Resources : q # r => a.latest[q] = latest[q]
      /\ \A k \in Keys : Source(k) # r => a.cache[k] = cache[k]
      /\ a.latest[r] = Nobody
           => \/ latest[r] = Nobody /\ a.cache = cache
              \/ \A k \in Keys : Source(k) = r => a.cache[k] = file[k]
  BY <1>3, Answer
<1> HIDE DEF a
<1>5. TypeOK' /\ JobsAreSane' /\ ButtonsAreNotStuck'
  BY <1>1, <1>2, <1>4 DEF TypeOK, JobsAreSane, ButtonsAreNotStuck
<1>6. ConfigFollows'
  <2> SUFFICES ASSUME NEW k \in Keys, k # Go2rtc, cache'[k] # file'[k],
                      latest'["config"] = Nobody
               PROVE  all # NoJob /\ all.phase = "put"
    BY <1>1 DEF ConfigFollows
  <2>1. r # "config"
    BY <1>1, <1>2, <1>3, <1>4 DEF Source
  <2>2. cache[k] # file[k] /\ latest["config"] = Nobody
    BY <1>1, <1>2, <1>4, <2>1 DEF Source, Resources
  <2> QED
    BY <2>2 DEF ConfigFollows
<1>7. StreamsFollow'
  <2>1. ASSUME cache'[Go2rtc] # file'[Go2rtc], latest'["raw_paths"] = Nobody
        PROVE  cache[Go2rtc] # file[Go2rtc] /\ latest["raw_paths"] = Nobody
    <3>1. r # "raw_paths"
      BY <1>1, <1>2, <1>3, <1>4, <2>1, KeysAssumption DEF Source
    <3> QED
      BY <1>1, <1>2, <1>4, <2>1, <3>1, KeysAssumption DEF Source, Resources
  <2> QED
    BY <1>1, <2>1 DEF StreamsFollow
<1> QED
  BY <1>5, <1>6, <1>7

LEMMA InitInv == Init => Inv
  BY NullsAssumption
  DEF Init, Inv, TypeOK, JobsAreSane, ConfigFollows, StreamsFollow,
      ButtonsAreNotStuck

LEMMA NextInv == Inv /\ [Next]_vars => Inv'
<1> SUFFICES ASSUME Inv, [Next]_vars PROVE Inv'
  OBVIOUS
<1>1. CASE \/ \E p \in Pages, c \in Cameras : Navigate(p, c)
           \/ \E k \in Keys, v \in Values : Edit(k, v)
           \/ \E k \in Keys : Undo(k)
           \/ UndoAll
  BY <1>1, HandsInv
<1>2. CASE \/ \E s \in Slots, k \in Keys : Save(s, k) \/ ResetToDefault(s, k)
           \/ SaveAll
  BY <1>2, StartsInv
<1>3. ASSUME NEW s \in Slots, SectionStep(s) PROVE Inv'
  BY <1>3, PutInv, RefreshedInv DEF SectionStep
<1>4. CASE AllStep
  BY <1>4, AllSendsInv, AllRefreshedInv DEF AllStep
<1>5. ASSUME NEW r \in Resources, BackgroundAnswer(r) PROVE Inv'
  BY <1>5, BackgroundInv
<1>6. CASE UNCHANGED vars
  BY <1>6
  DEF vars, view, Inv, TypeOK, JobsAreSane, ConfigFollows, StreamsFollow,
      ButtonsAreNotStuck
<1> QED
  BY <1>1, <1>2, <1>3, <1>4, <1>5, <1>6 DEF Next, User

LEMMA SpecInv == Spec => []Inv
  BY InitInv, NextInv, PTL DEF Spec

(* The state of the pages, the requests and the copies keeps its shape.    *)
THEOREM Types == Spec => []TypeOK
<1>1. Inv => TypeOK
  BY DEF Inv
<1> QED
  BY <1>1, SpecInv, PTL

(* The flag the sections share is only up while one of them saves, whoever *)
(* clears it, and Save All's while it has a PUT or a fetch to wait for.    *)
THEOREM Buttons == Spec => []ButtonsAreNotStuck
<1>1. Inv => ButtonsAreNotStuck
  BY DEF Inv
<1> QED
  BY <1>1, SpecInv, PTL

(* The copy of the configuration is never left stale with nothing on its   *)
(* way that fetches it, however saves overlap and fetches fail.            *)
THEOREM Stale == Spec => []StaleOnlyWhileWorking
<1>1. Inv => StaleOnlyWhileWorking
  BY DEF Inv, ConfigFollows, StreamsFollow, StaleOnlyWhileWorking, Source
<1> QED
  BY <1>1, SpecInv, PTL
----------------------------------------------------------------------------
(* Nothing is lost.  What is kept of a key that is wanted: it is pending   *)
(* or saved, and every request that has taken it along will write that     *)
(* value or has done so.  The form's copy may be stale, but never by the   *)
(* wanted value itself, so that a value equal to it is in the file.        *)
Here(k) == /\ pending[k] \in {NoData, wanted[k]}
           /\ pending[k] = NoData => file[k] = wanted[k]
           /\ cache[k] = wanted[k] => file[k] = wanted[k]
InSaves(k) ==
  \A s \in Slots : jobs[s] # NoJob /\ jobs[s].key = k =>
    /\ jobs[s].kind = "save"
    /\ jobs[s].phase = "put" => jobs[s].data = wanted[k]
    /\ jobs[s].phase # "put" => file[k] = wanted[k]
InSaveAll(k) ==
  all # NoJob => /\ k \in all.todo => \/ all.data[k] = wanted[k]
                                      \/ all.data[k] = NoData /\ file[k] = wanted[k]
                 /\ k \in all.toClear => file[k] = wanted[k]
Kept == \A k \in Keys : wanted[k] # NoData => Here(k) /\ InSaves(k) /\ InSaveAll(k)

(* An edit that is not in haste is of a key that no request has taken      *)
(* along, and not back to a value that only a stale copy has.              *)
LEMMA EditKeeps ==
  ASSUME Inv, Kept, NEW e \in Keys, NEW v \in Values, Edit(e, v)
  PROVE  Kept'
<1>1. /\ pending' = [pending EXCEPT ![e] = IF v = cache[e] THEN NoData ELSE v]
      /\ wanted' = [wanted EXCEPT ![e] = IF Hasty(e, v) THEN NoData ELSE v]
      /\ UNCHANGED <<file, cache, jobs, all>>
  BY DEF Edit
<1>2. /\ \A k \in Keys : k # e => pending'[k] = pending[k] /\ wanted'[k] = wanted[k]
      /\ pending'[e] = IF v = cache[e] THEN NoData ELSE v
      /\ wanted'[e] = IF Hasty(e, v) THEN NoData ELSE v
  BY <1>1 DEF Inv, TypeOK
<1>3. ASSUME NEW k \in Keys, wanted'[k] # NoData
      PROVE  Here(k)' /\ InSaves(k)' /\ InSaveAll(k)'
  <2>1. CASE k # e
    <3>1. Here(k) /\ InSaves(k) /\ InSaveAll(k)
      BY <1>2, <1>3, <2>1 DEF Kept
    <3> QED
      BY <1>1, <1>2, <2>1, <3>1 DEF Here, InSaves, InSaveAll
  <2>2. CASE k = e
    <3>1. wanted'[e] = v /\ ~Carried(e) /\ (v = cache[e] => file[e] = v)
      BY <1>2, <1>3, <2>2 DEF Hasty
    <3>2. pending'[e] = (IF v = cache[e] THEN NoData ELSE v) /\ UNCHANGED <<cache, file>>
      BY <1>1, <1>2
    <3>4. v # NoData
      BY ValuesAssumption
    <3>5. Here(e)'
      BY <3>1, <3>2, <3>4 DEF Here
    <3>3. InSaves(k)' /\ InSaveAll(k)'
      BY <1>1, <2>2, <3>1 DEF Carried, InSaves, InSaveAll
    <3> QED
      BY <2>2, <3>3, <3>5
  <2> QED
    BY <2>1, <2>2
<1> QED
  BY <1>3 DEF Kept

(* Pages are left and edits taken back: requests keep what they have.      *)
LEMMA HandsKeep ==
  ASSUME Inv, Kept,
         \/ \E p \in Pages, c \in Cameras : Navigate(p, c)
         \/ \E k \in Keys : Undo(k)
         \/ UndoAll
  PROVE  Kept'
<1>1. ASSUME NEW p \in Pages, NEW c \in Cameras, Navigate(p, c) PROVE Kept'
  <2>1. UNCHANGED <<file, cache, pending, all, wanted>>
    BY <1>1 DEF Navigate
  <2>2. ASSUME NEW s \in Slots, jobs'[s] # NoJob
        PROVE  /\ jobs[s] # NoJob /\ jobs'[s].kind = jobs[s].kind
               /\ jobs'[s].key = jobs[s].key /\ jobs'[s].data = jobs[s].data
               /\ jobs'[s].phase = jobs[s].phase
    <3>1. jobs[s] # NoJob /\ jobs'[s] = [jobs[s] EXCEPT !.mounted = @ /\ p = page]
      BY <1>1, <2>2 DEF Navigate
    <3>2. jobs[s] \in SectionJobs
      BY <3>1, JobTypes DEF Inv
    <3> QED
      BY <3>1, <3>2 DEF SectionJobs
  <2>3. ASSUME NEW k \in Keys, wanted'[k] # NoData
        PROVE  Here(k)' /\ InSaves(k)' /\ InSaveAll(k)'
    <3>1. Here(k) /\ InSaves(k) /\ InSaveAll(k)
      BY <2>1, <2>3 DEF Kept
    <3>2. Here(k)' /\ InSaveAll(k)'
      BY <2>1, <3>1 DEF Here, InSaveAll
    <3>3. InSaves(k)'
      BY <2>1, <2>2, <3>1 DEF InSaves
    <3> QED
      BY <3>2, <3>3
  <2> QED
    BY <2>3 DEF Kept
<1>2. ASSUME (\E k \in Keys : Undo(k)) \/ UndoAll PROVE Kept'
  <2>1. /\ UNCHANGED <<file, cache, jobs, all>>
        /\ \A k \in Keys : \/ wanted'[k] = NoData
                           \/ wanted'[k] = wanted[k] /\ pending'[k] = pending[k]
    <3>1. UNCHANGED <<file, cache, jobs, all>>
      BY <1>2 DEF Undo, UndoAll
    <3>2. SUFFICES \A k \in Keys :
                     \/ wanted'[k] = NoData
                     \/ wanted'[k] = wanted[k] /\ pending'[k] = pending[k]
      BY <3>1
    <3>3. ASSUME NEW e \in Keys, Undo(e)
          PROVE  \A k \in Keys :
                   \/ wanted'[k] = NoData
                   \/ wanted'[k] = wanted[k] /\ pending'[k] = pending[k]
      BY <3>3 DEF Undo, Without, Inv, TypeOK
    <3>4. CASE UndoAll
      BY <3>4 DEF UndoAll, Without, Inv, TypeOK
    <3> QED
      BY <1>2, <3>3, <3>4
  <2> QED
    BY <2>1 DEF Kept, Here, InSaves, InSaveAll
<1> QED
  BY <1>1, <1>2

(* What a request takes along when it starts is what is wanted; a reset    *)
(* starts when no other request is open, and nothing is wanted of its key. *)
LEMMA StartsKeep ==
  ASSUME Inv, Kept,
         \/ \E s \in Slots, k \in Keys : Save(s, k) \/ ResetToDefault(s, k)
         \/ SaveAll
  PROVE  Kept'
<1>1. ASSUME NEW s \in Slots, NEW e \in Keys, Save(s, e) PROVE Kept'
  <2> DEFINE j == [kind |-> "save", key |-> e, data |-> pending[e], phase |-> "put",
                   mounted |-> TRUE]
  <2>1. /\ jobs' = [jobs EXCEPT ![s] = j] /\ pending[e] # NoData
        /\ UNCHANGED <<file, cache, pending, all, wanted>>
    BY <1>1 DEF Save, HasChanges
  <2>2. j.kind = "save" /\ j.key = e /\ j.data = pending[e] /\ j.phase = "put"
    OBVIOUS
  <2> HIDE DEF j
  <2>3. \A t \in Slots : jobs'[t] = IF t = s THEN j ELSE jobs[t]
    BY <2>1 DEF Inv, TypeOK
  <2>4. ASSUME NEW k \in Keys, wanted'[k] # NoData
        PROVE  Here(k)' /\ InSaves(k)' /\ InSaveAll(k)'
    <3>1. Here(k) /\ InSaves(k) /\ InSaveAll(k)
      BY <2>1, <2>4 DEF Kept
    <3>2. Here(k)' /\ InSaveAll(k)'
      BY <2>1, <3>1 DEF Here, InSaveAll
    <3>3. InSaves(k)'
      BY <2>1, <2>2, <2>3, <3>1 DEF Here, InSaves
    <3> QED
      BY <3>2, <3>3
  <2> QED
    BY <2>4 DEF Kept
<1>2. ASSUME NEW s \in Slots, NEW e \in Keys, ResetToDefault(s, e) PROVE Kept'
  <2> DEFINE j == [kind |-> "reset", key |-> e, data |-> Default[e], phase |-> "put",
                   mounted |-> TRUE]
  <2>1. /\ jobs' = [jobs EXCEPT ![s] = j]
        /\ wanted' = [wanted EXCEPT ![e] = NoData]
        /\ UNCHANGED <<file, cache, pending, all>>
    BY <1>2 DEF ResetToDefault
  <2>2. j.key = e
    OBVIOUS
  <2> HIDE DEF j
  <2>3. \A t \in Slots : jobs'[t] = IF t = s THEN j ELSE jobs[t]
    BY <2>1 DEF Inv, TypeOK
  <2>4. ASSUME NEW k \in Keys, wanted'[k] # NoData
        PROVE  Here(k)' /\ InSaves(k)' /\ InSaveAll(k)'
    <3>1. k # e /\ wanted'[k] = wanted[k]
      BY <2>1, <2>4 DEF Inv, TypeOK
    <3>2. Here(k) /\ InSaves(k) /\ InSaveAll(k)
      BY <2>4, <3>1 DEF Kept
    <3>3. Here(k)' /\ InSaveAll(k)'
      BY <2>1, <3>1, <3>2 DEF Here, InSaveAll
    <3>4. InSaves(k)'
      BY <2>1, <2>2, <2>3, <3>1, <3>2 DEF InSaves
    <3> QED
      BY <3>3, <3>4
  <2> QED
    BY <2>4 DEF Kept
<1>3. CASE SaveAll
  <2>1. /\ all'.todo = {k \in Keys : pending[k] # NoData} /\ all'.toClear = {}
        /\ \A k \in Keys : all'.data[k] = IF IsSent(k) THEN pending[k] ELSE NoData
        /\ UNCHANGED <<file, cache, pending, jobs, wanted>>
    BY <1>3 DEF SaveAll
  <2>2. ASSUME NEW k \in Keys, wanted'[k] # NoData
        PROVE  Here(k)' /\ InSaves(k)' /\ InSaveAll(k)'
    <3>1. Here(k) /\ InSaves(k)
      BY <2>1, <2>2 DEF Kept
    <3>2. Here(k)' /\ InSaves(k)'
      BY <2>1, <3>1 DEF Here, InSaves
    <3>3. ASSUME k \in all'.todo
          PROVE  \/ all'.data[k] = wanted[k]
                 \/ all'.data[k] = NoData /\ file[k] = wanted[k]
      <4>1. pending[k] = wanted[k]
        BY <2>1, <3>1, <3>3 DEF Here
      <4>2. CASE IsSent(k)
        BY <2>1, <4>1, <4>2
      <4>3. CASE ~IsSent(k)
        BY <2>1, <3>1, <4>1, <4>3 DEF Here, IsSent
      <4> QED
        BY <4>2, <4>3
    <3>4. all'.toClear = {} /\ wanted' = wanted /\ file' = file
      BY <2>1
    <3>5. InSaveAll(k)'
      BY <3>3, <3>4 DEF InSaveAll
    <3> QED
      BY <3>2, <3>5
  <2> QED
    BY <2>2 DEF Kept
<1> QED
  BY <1>1, <1>2, <1>3

(* A PUT writes what is wanted, or a key of which nothing is.              *)
LEMMA PutKeeps ==
  ASSUME Inv, Kept, NEW s \in Slots, PutAccepted(s) \/ PutFails(s)
  PROVE  Kept'
<1> DEFINE e == jobs[s].key
<1>1. jobs[s] # NoJob /\ jobs[s].phase = "put" /\ jobs[s] \in SectionJobs /\ e \in Keys
  BY JobTypes DEF PutAccepted, PutFails, Inv, SectionJobs
<1>2. CASE PutAccepted(s)
  <2>1. /\ file' = [file EXCEPT ![e] = jobs[s].data]
        /\ UNCHANGED <<cache, all, wanted>>
        /\ \/ /\ jobs[s].kind = "save" /\ pending' = pending
              /\ jobs' = [jobs EXCEPT ![s].phase = "config", ![s].data = NoData]
           \/ /\ jobs[s].kind = "reset" /\ pending' = Without({e})
              /\ jobs' = [jobs EXCEPT ![s] = NoJob]
    BY <1>2 DEF PutAccepted
  <2>2. \A k \in Keys : file'[k] = IF k = e THEN jobs[s].data ELSE file[k]
    BY <2>1 DEF Inv, TypeOK
  <2>3. ASSUME NEW k \in Keys, wanted'[k] # NoData
        PROVE  Here(k)' /\ InSaves(k)' /\ InSaveAll(k)'
    <3>1. Here(k) /\ InSaves(k) /\ InSaveAll(k) /\ wanted'[k] = wanted[k]
      BY <2>1, <2>3 DEF Kept
    <3>2. k = e => jobs[s].kind = "save" /\ jobs[s].data = wanted[k]
      BY <1>1, <3>1 DEF InSaves
    <3>3. file'[k] = wanted[k] \/ (file'[k] = file[k] /\ k # e)
      BY <2>2, <3>2
    <3>4. pending'[k] = pending[k]
      BY <2>1, <3>2, <3>3 DEF Without
    <3>5. Here(k)' /\ InSaveAll(k)'
      BY <2>1, <3>1, <3>3, <3>4 DEF Here, InSaveAll
    <3>6. ASSUME NEW t \in Slots, jobs'[t] # NoJob, jobs'[t].key = k
          PROVE  /\ jobs'[t].kind = "save"
                 /\ jobs'[t].phase = "put" => jobs'[t].data = wanted[k]
                 /\ jobs'[t].phase # "put" => file'[k] = wanted[k]
      <4>1. CASE t # s
        <5>1. jobs'[t] = jobs[t]
          BY <2>1, <4>1 DEF Inv, TypeOK
        <5> QED
          BY <3>1, <3>3, <3>6, <5>1 DEF InSaves
      <4>2. CASE t = s
        <5>1. jobs'[t] = [jobs[s] EXCEPT !.phase = "config", !.data = NoData]
          BY <2>1, <3>6, <4>2 DEF Inv, TypeOK
        <5>2. /\ jobs'[t].key = e /\ jobs'[t].kind = jobs[s].kind
              /\ jobs'[t].phase = "config"
          BY <1>1, <5>1 DEF SectionJobs
        <5> QED
          BY <3>2, <3>3, <3>6, <5>2
      <4> QED
        BY <4>1, <4>2
    <3>7. InSaves(k)'
      BY <2>1, <3>6 DEF InSaves
    <3> QED
      BY <3>5, <3>7
  <2> QED
    BY <2>3 DEF Kept
<1>3. CASE PutFails(s)
  <2>1. jobs' = [jobs EXCEPT ![s] = NoJob] /\ UNCHANGED <<file, cache, pending, all, wanted>>
    BY <1>3 DEF PutFails, SaveEnds
  <2> QED
    BY <2>1, JobGone DEF Kept, Here, InSaves, InSaveAll
<1> QED
  BY <1>2, <1>3

(* A refresh clears the pending entry of a key that has been saved.        *)
LEMMA RefreshKeeps ==
  ASSUME Inv, Kept, NEW s \in Slots, Refreshed(s)
  PROVE  Kept'
<1> DEFINE e == jobs[s].key
<1>1. PICK ok \in BOOLEAN :
        /\ cache' = Answered(jobs[s].phase, s, ok).cache
        /\ \/ /\ jobs' = [jobs EXCEPT ![s].phase = "raw_paths"] /\ pending' = pending
           \/ /\ jobs' = [jobs EXCEPT ![s] = NoJob] /\ pending' = Without({e})
  BY DEF Refreshed, SaveEnds
<1>2. /\ jobs[s] # NoJob /\ jobs[s].phase \in Resources /\ jobs[s] \in SectionJobs
      /\ UNCHANGED <<file, all, wanted>>
  BY JobTypes DEF Refreshed, Inv
<1>3. \A k \in Keys : cache'[k] \in {cache[k], file[k]}
  <2>1. s \in Requesters
    BY DEF Requesters
  <2> QED
    BY <1>1, <1>2, <2>1, Answer DEF Inv
<1>4. ASSUME NEW k \in Keys, wanted'[k] # NoData
      PROVE  Here(k)' /\ InSaves(k)' /\ InSaveAll(k)'
  <2>1. Here(k) /\ InSaves(k) /\ InSaveAll(k) /\ wanted'[k] = wanted[k]
    BY <1>2, <1>4 DEF Kept
  <2>2. k = e => file[k] = wanted[k]
    BY <1>2, <2>1 DEF InSaves, Resources
  <2>3. pending'[k] = pending[k] \/ (pending'[k] = NoData /\ k = e)
    BY <1>1 DEF Without, Inv, TypeOK
  <2>4. Here(k)'
    BY <1>2, <1>3, <2>1, <2>2, <2>3 DEF Here
  <2>5. ASSUME NEW t \in Slots, jobs'[t] # NoJob
        PROVE  /\ jobs[t] # NoJob /\ jobs'[t].kind = jobs[t].kind
               /\ jobs'[t].key = jobs[t].key /\ jobs'[t].data = jobs[t].data
               /\ jobs'[t].phase # "put" <=> jobs[t].phase # "put"
    <3>1. CASE t # s
      BY <1>1, <2>5, <3>1 DEF Inv, TypeOK
    <3>2. CASE t = s
      <4>1. jobs'[t] = [jobs[s] EXCEPT !.phase = "raw_paths"]
        BY <1>1, <2>5, <3>2 DEF Inv, TypeOK
      <4> QED
        BY <1>2, <3>2, <4>1 DEF SectionJobs, Resources
    <3> QED
      BY <3>1, <3>2
  <2>6. InSaves(k)' /\ InSaveAll(k)'
    BY <1>2, <2>1, <2>5 DEF InSaves, InSaveAll
  <2> QED
    BY <2>4, <2>6
<1> QED
  BY <1>4 DEF Kept

(* Save All notes a key as saved when what is wanted of it is in the file: *)
(* because it was sent, or because it was there when it had nothing to     *)
(* send.                                                                   *)
LEMMA AllSendsKeep ==
  ASSUME Inv, Kept, NEW e \in Keys, AllSaves(e) \/ AllFailsToSave(e)
  PROVE  Kept'
<1>1. /\ all # NoJob /\ all \in AllJobs /\ e \in all.todo
      /\ UNCHANGED <<cache, pending, jobs, wanted>>
  BY JobTypes DEF Inv, AllSaves, AllFailsToSave, NextToSave
<1>2. PICK cleared \in {{}, {e}} :
        /\ Done(e, cleared)
        /\ \/ file' = file
           \/ all.data[e] # NoData /\ file' = [file EXCEPT ![e] = all.data[e]]
        /\ cleared = {e} => file'[e] = all.data[e] \/ all.data[e] = NoData
  BY DEF AllSaves, AllFailsToSave, Inv, TypeOK
<1>3. all' = [all EXCEPT !.todo = all.todo \ {e}, !.data[e] = NoData, !.toClear = @ \cup cleared,
                         !.phase = IF all.todo \ {e} = {} THEN "config" ELSE "put"]
  BY <1>2 DEF Done
<1>4. /\ \A k \in Keys : k # e => all'.data[k] = all.data[k]
      /\ all'.todo = all.todo \ {e} /\ all'.toClear = all.toClear \cup cleared
  BY <1>1, <1>3 DEF AllJobs
<1>5. ASSUME NEW k \in Keys, wanted'[k] # NoData
      PROVE  Here(k)' /\ InSaves(k)' /\ InSaveAll(k)'
  <2>1. Here(k) /\ InSaves(k) /\ InSaveAll(k) /\ wanted'[k] = wanted[k]
    BY <1>1, <1>5 DEF Kept
  <2>2. k = e => \/ all.data[k] = wanted[k]
                 \/ all.data[k] = NoData /\ file[k] = wanted[k]
    BY <1>1, <2>1 DEF InSaveAll
  <2>3. file'[k] \in {file[k], wanted[k]}
    BY <1>2, <2>2 DEF Inv, TypeOK
  <2>4. k = e /\ cleared = {e} => file'[k] = wanted[k]
    BY <1>1, <1>2, <1>5, <2>1, <2>2, <2>3 DEF InSaveAll
  <2>5. Here(k)' /\ InSaves(k)'
    BY <1>1, <2>1, <2>3 DEF Here, InSaves
  <2>6. k \in all'.toClear => k \in all.toClear \/ (k = e /\ cleared = {e})
    BY <1>2, <1>4
  <2>7. InSaveAll(k)'
    BY <1>1, <1>4, <2>1, <2>3, <2>4, <2>6 DEF InSaveAll
  <2> QED
    BY <2>5, <2>7
<1> QED
  BY <1>5 DEF Kept

LEMMA AllRefreshKeeps == ASSUME Inv, Kept, AllRefreshed PROVE Kept'
<1>1. /\ all # NoJob /\ all' = NoJob /\ pending' = Without(all.toClear)
      /\ UNCHANGED <<file, jobs, wanted>>
  BY DEF AllRefreshed
<1>2. \A k \in Keys : cache'[k] \in {cache[k], file[k]}
  <2>1. PICK ok \in BOOLEAN : cache' = Answered("config", "all", ok).cache
    BY DEF AllRefreshed
  <2>2. "all" \in Requesters /\ "config" \in Resources
    BY DEF Requesters, Resources
  <2> QED
    BY <2>1, <2>2, Answer DEF Inv
<1>3. ASSUME NEW k \in Keys, wanted'[k] # NoData
      PROVE  Here(k)' /\ InSaves(k)' /\ InSaveAll(k)'
  <2>1. Here(k) /\ InSaves(k) /\ InSaveAll(k) /\ wanted'[k] = wanted[k]
    BY <1>1, <1>3 DEF Kept
  <2>2. pending'[k] = IF k \in all.toClear THEN NoData ELSE pending[k]
    BY <1>1 DEF Without
  <2>3. Here(k)'
    BY <1>1, <1>2, <2>1, <2>2 DEF Here, InSaveAll
  <2> QED
    BY <1>1, <2>1, <2>3 DEF InSaves, InSaveAll
<1> QED
  BY <1>3 DEF Kept

LEMMA BackgroundKeeps ==
  ASSUME Inv, Kept, NEW r \in Resources, BackgroundAnswer(r)
  PROVE  Kept'
<1>1. UNCHANGED <<file, pending, jobs, all, wanted>>
  BY DEF BackgroundAnswer
<1>2. \A k \in Keys : cache'[k] \in {cache[k], file[k]}
  <2>1. cache' = Answered(r, "background", TRUE).cache
    BY DEF BackgroundAnswer
  <2>2. "background" \in Requesters
    BY DEF Requesters
  <2> QED
    BY <2>1, <2>2, Answer DEF Inv
<1> QED
  BY <1>1, <1>2 DEF Kept, Here, InSaves, InSaveAll

LEMMA NextKeeps == Inv /\ Kept /\ [Next]_vars => Kept'
<1> SUFFICES ASSUME Inv, Kept, [Next]_vars PROVE Kept'
  OBVIOUS
<1>1. ASSUME NEW k \in Keys, NEW v \in Values, Edit(k, v) PROVE Kept'
  BY <1>1, EditKeeps
<1>2. CASE \/ \E p \in Pages, c \in Cameras : Navigate(p, c)
           \/ \E k \in Keys : Undo(k)
           \/ UndoAll
  BY <1>2, HandsKeep
<1>3. CASE \/ \E s \in Slots, k \in Keys : Save(s, k) \/ ResetToDefault(s, k)
           \/ SaveAll
  BY <1>3, StartsKeep
<1>4. ASSUME NEW s \in Slots, SectionStep(s) PROVE Kept'
  BY <1>4, PutKeeps, RefreshKeeps DEF SectionStep
<1>5. CASE AllStep
  BY <1>5, AllSendsKeep, AllRefreshKeeps DEF AllStep
<1>6. ASSUME NEW r \in Resources, BackgroundAnswer(r) PROVE Kept'
  BY <1>6, BackgroundKeeps
<1>7. CASE UNCHANGED vars
  BY <1>7 DEF vars, Kept, Here, InSaves, InSaveAll
<1> QED
  BY <1>1, <1>2, <1>3, <1>4, <1>5, <1>6, <1>7 DEF Next, User

(* What the user set last is pending or in the server's file, whatever     *)
(* saves fail, overlap or are left behind, and whatever is edited while    *)
(* they run: only an edit in haste is dropped.                             *)
THEOREM Lossless == Spec => []NothingIsLost
<1>1. Init => Kept
  BY DEF Init, Kept
<1>2. Inv /\ Kept => NothingIsLost
  BY DEF Kept, Here, NothingIsLost
<1> QED
  BY <1>1, <1>2, NextKeeps, SpecInv, PTL DEF Spec
=============================================================================
