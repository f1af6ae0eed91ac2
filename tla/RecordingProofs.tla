-------------------------- MODULE RecordingProofs --------------------------
(***************************************************************************)
(* A quiet queue, one recorder and true reports, for any number of         *)
(* recordings and binaries.                                                *)
(***************************************************************************)
EXTENDS Recording, TLAPS

\* What a task has already established when it is at a step.
Established ==
    /\ task.does = "record" /\ task.at \notin PublishSteps
            => rec[task.for].status \in Active
    /\ task.at \in {"evidence", "imported"} => rec[task.for].status = "importing"
    /\ task.at = "imported" => task.for \in sessions
    /\ task.at \in PublishSteps \ {"publish"} => task.for \in sessions
    /\ task.at \in {"verify", "export", "saved"} => task.for \in inGhidra
    /\ task.does \notin {"nothing", "phase", "native"} => rec[task.for].status # "none"

\* Only a task imports, publishes and starts a recorder.
Owned ==
    \A r \in Recordings :
        /\ rec[r].status # "none" => Of(r) \in Binaries
        /\ rec[r].status = "importing"
                => /\ task.for = r /\ task.does \in {"record", "recover"}
                   /\ task.at \in {"evidence", "imported", "failing"}
        /\ rec[r].ghidra = "saving"
                => task.for = r /\ task.at \in PublishSteps \ {"publish"}
        /\ Alive(r) /\ r \notin orphans
                => task.for = r /\ task.does = "record" /\ task.at = "watching"

\* A task is at a step that its kind has.
Kind(t) ==
    \/ t.does = "nothing" /\ t.at = "idle" /\ t.for = None
    \/ /\ t.for \in Recordings
       /\ \/ t.does \in {"record", "recover"} /\ t.at \in {"failing"} \cup ImportSteps \cup PublishSteps
          \/ t.does = "record" /\ t.at \in {"accepted", "watching"}
          \/ t.does = "recover" /\ t.at = "recover"
          \/ t.does = "publish" /\ t.at \in PublishSteps
          \/ t.does = "analyze" /\ t.at \in {"scope", "scope again", "store", "resume"}
    \/ t.for \in Binaries /\ t.does \in {"phase", "native"} /\ t.at = "writing"

IsTask(t) == t = [does |-> t.does, at |-> t.at, for |-> t.for] /\ Kind(t)

\* The record of a task, without its sets.
LEMMA TaskKinds ==
    ASSUME NEW t
    PROVE  t \in Tasks <=> IsTask(t)
<1>1. ASSUME t \in Tasks PROVE IsTask(t)
  <2> USE DEF IsTask, Kind, ImportSteps, PublishSteps
  <2>1. CASE t = Nobody
      BY <2>1 DEF Nobody
  <2>2. CASE t \in [does : {"record"}, for : Recordings,
                    at : {"accepted", "watching", "failing"} \cup ImportSteps \cup PublishSteps]
      BY <2>2
  <2>3. CASE t \in [does : {"recover"}, for : Recordings,
                    at : {"recover", "failing"} \cup ImportSteps \cup PublishSteps]
      BY <2>3
  <2>4. CASE t \in [does : {"publish"}, for : Recordings, at : PublishSteps]
      BY <2>4
  <2>5. CASE t \in [does : {"analyze"}, for : Recordings,
                    at : {"scope", "scope again", "store", "resume"}]
      BY <2>5
  <2>6. CASE t \in [does : {"phase", "native"}, for : Binaries, at : {"writing"}]
      BY <2>6
  <2> QED BY <1>1, <2>1, <2>2, <2>3, <2>4, <2>5, <2>6 DEF Tasks
<1>2. ASSUME IsTask(t) PROVE t \in Tasks
    BY <1>2 DEF Tasks, IsTask, Kind, Nobody, ImportSteps, PublishSteps
<1> QED BY <1>1, <1>2

\* A task goes on.
LEMMA Moved ==
    ASSUME IsTask(task), NEW at, Go(at)
    PROVE  /\ task' = [does |-> task.does, at |-> at, for |-> task.for]
           /\ task'.does = task.does /\ task'.at = at /\ task'.for = task.for
BY DEF IsTask, Go

Recs == [Recordings -> [status : Statuses, binary : Binaries \cup {None},
                        analyzed : BOOLEAN,
                        ghidra : {"pending", "saving", "saved", "retry"}]]

\* A status is set and nothing else.
LEMMA StatusSet ==
    ASSUME rec \in Recs, NEW r \in Recordings, NEW s \in Statuses, SetStatus(r, s)
    PROVE  /\ rec' \in Recs
           /\ \A q \in Recordings :
                /\ rec'[q].status = IF q = r THEN s ELSE rec[q].status
                /\ rec'[q].ghidra = rec[q].ghidra /\ rec'[q].binary = rec[q].binary
BY DEF Recs, SetStatus

LEMMA GhidraSet ==
    ASSUME rec \in Recs, NEW r \in Recordings,
           NEW s \in {"pending", "saving", "saved", "retry"}, SetGhidra(r, s)
    PROVE  /\ rec' \in Recs
           /\ \A q \in Recordings :
                /\ rec'[q].ghidra = IF q = r THEN s ELSE rec[q].ghidra
                /\ rec'[q].status = rec[q].status /\ rec'[q].binary = rec[q].binary
BY DEF Recs, SetGhidra

\* RecordingTypeOK, with the tasks by their kinds.
Typed ==
    /\ rec \in Recs /\ IsTask(task)
    /\ file \in [Recordings -> {"none", "journal", "trace"}]
    /\ recorder \in [Recordings -> {"none", "launched", "attached", "capturing",
                                    "complete", "broken"}]
    /\ orphans \subseteq Recordings /\ sessions \subseteq Recordings
    /\ inGhidra \subseteq Recordings
    /\ paused \subseteq Binaries /\ open \subseteq Binaries /\ lost \subseteq Binaries
    /\ restarts \in 0 .. MaxRestarts /\ acts \in 0 .. MaxActs

\* The inductive invariant.
Inv == /\ Typed /\ Established /\ Owned
       /\ QuietCapture /\ OneRecorder /\ ReportsAreTrue

-----------------------------------------------------------------------------
LEMMA Counted ==
    ASSUME acts \in 0 .. MaxActs, Act
    PROVE  acts' \in 0 .. MaxActs
BY RecordingAssumption DEF Act

\* A job that is claimed or ends, of a binary that is not paused.
LEMMA QueueMoves ==
    ASSUME QuietCapture, UNCHANGED <<rec, task, paused>>,
           NEW b, b \notin paused \/ b \in open,
           open' \cup lost' \subseteq open \cup lost \cup {b}
    PROVE  QuietCapture'
BY DEF QuietCapture, ActiveOnes, Of

LEMMA Started ==
    ASSUME Typed, NEW r \in Recordings, NEW b \in Binaries, Start(r, b)
    PROVE  /\ rec' \in Recs
           /\ rec'[r].status = "starting" /\ rec'[r].binary = b
           /\ rec'[r].ghidra = rec[r].ghidra
           /\ \A q \in Recordings \ {r} : rec'[q] = rec[q]
<1> DEFINE half == [rec EXCEPT ![r].status = "starting"]
<1>1. /\ half \in Recs /\ half[r].status = "starting" /\ half[r].ghidra = rec[r].ghidra
      /\ \A q \in Recordings \ {r} : half[q] = rec[q]
    BY DEF Typed, Recs, Statuses, Active
<1>2. rec' = [half EXCEPT ![r].binary = b]
    BY DEF Typed, Recs, Start
<1> HIDE DEF half
<1>3. rec' \in Recs
    BY <1>1, <1>2 DEF Recs
<1>4. rec'[r].status = "starting" /\ rec'[r].binary = b /\ rec'[r].ghidra = rec[r].ghidra
    BY <1>1, <1>2 DEF Recs
<1>5. \A q \in Recordings \ {r} : rec'[q] = rec[q]
    BY <1>1, <1>2 DEF Recs
<1> QED BY <1>3, <1>4, <1>5

LEMMA PublishedStatus ==
    ASSUME Typed, PublishEnd
    PROVE  /\ task.at \in {"saved", "unsaved"} /\ task.for \in Recordings
           /\ rec' \in Recs
           /\ \A q \in Recordings :
                /\ rec'[q].ghidra = IF q = task.for
                                    THEN IF task.at = "saved" THEN "saved" ELSE "retry"
                                    ELSE rec[q].ghidra
                /\ rec'[q].status = rec[q].status /\ rec'[q].binary = rec[q].binary
<1>1. /\ rec \in Recs /\ task.at \in {"saved", "unsaved"} /\ task.for \in Recordings
    BY DEF PublishEnd, Typed, IsTask, Kind
<1>2. CASE task.at = "saved" /\ SetGhidra(task.for, "saved")
    BY <1>1, <1>2, GhidraSet
<1>3. CASE task.at = "unsaved" /\ SetGhidra(task.for, "retry")
    BY <1>1, <1>3, GhidraSet
<1> QED BY <1>1, <1>2, <1>3 DEF PublishEnd

LEMMA RestartCounts ==
    ASSUME Typed, Restart
    PROVE  restarts' \in 0 .. MaxRestarts /\ acts' = acts
BY RecordingAssumption DEF Restart, Typed

LEMMA Stored ==
    ASSUME rec \in Recs, NEW r \in Recordings, rec' = [rec EXCEPT ![r].analyzed = TRUE]
    PROVE  /\ rec' \in Recs
           /\ \A q \in Recordings : /\ rec'[q].status = rec[q].status
                                    /\ rec'[q].ghidra = rec[q].ghidra
                                    /\ rec'[q].binary = rec[q].binary
BY DEF Recs

LEMMA Interrupted ==
    ASSUME rec \in Recs, rec' = [r \in Recordings |-> Recovered(r)]
    PROVE  /\ rec' \in Recs
           /\ \A q \in Recordings :
                /\ rec'[q].status = IF rec[q].status \in Active THEN "interrupted"
                                                              ELSE rec[q].status
                /\ rec'[q].ghidra = IF rec[q].ghidra = "saving" THEN "retry" ELSE rec[q].ghidra
                /\ rec'[q].binary = rec[q].binary
           /\ \A q \in Recordings : rec'[q].status \notin Active /\ rec'[q].ghidra # "saving"
<1>1. ASSUME NEW r \in Recordings
      PROVE  /\ Recovered(r) \in [status : Statuses, binary : Binaries \cup {None},
                                  analyzed : BOOLEAN,
                                  ghidra : {"pending", "saving", "saved", "retry"}]
             /\ Recovered(r).status =
                    IF rec[r].status \in Active THEN "interrupted" ELSE rec[r].status
             /\ Recovered(r).ghidra =
                    IF rec[r].ghidra = "saving" THEN "retry" ELSE rec[r].ghidra
             /\ Recovered(r).binary = rec[r].binary
  <2> DEFINE once == [rec[r] EXCEPT !.status = IF @ \in Active THEN "interrupted" ELSE @]
  <2>1. /\ once \in [status : Statuses, binary : Binaries \cup {None}, analyzed : BOOLEAN,
                     ghidra : {"pending", "saving", "saved", "retry"}]
        /\ once.status = IF rec[r].status \in Active THEN "interrupted" ELSE rec[r].status
        /\ once.ghidra = rec[r].ghidra /\ once.binary = rec[r].binary
      BY DEF Recs, Statuses
  <2>2. Recovered(r) = [once EXCEPT !.ghidra = IF @ = "saving" THEN "retry" ELSE @]
      BY DEF Recovered, Recs
  <2> HIDE DEF once
  <2> QED BY <2>1, <2>2
<1>2. \A r \in Recordings : Recovered(r).status \notin Active /\ Recovered(r).ghidra # "saving"
    BY <1>1 DEF Active
<1> QED BY <1>1, <1>2 DEF Recs

LEMMA RecordersStay ==
    ASSUME OneRecorder, UNCHANGED <<rec, recorder, orphans>>
    PROVE  OneRecorder'
BY DEF OneRecorder, ActiveOnes, Alive

LEMMA KeepsFail ==
    ASSUME Inv, Fail
    PROVE  Inv'
<1>1. /\ task.at = "failing" /\ task.for \in Recordings
      /\ UNCHANGED <<file, recorder, orphans, sessions, inGhidra, queue, counts>>
    BY DEF Fail, Inv, Typed, IsTask, Kind, PublishSteps, ImportSteps
<1>2. /\ rec' \in Recs
      /\ \A q \in Recordings :
            /\ rec'[q].status = IF q = task.for THEN "failed" ELSE rec[q].status
            /\ rec'[q].ghidra = rec[q].ghidra /\ rec'[q].binary = rec[q].binary
    BY <1>1, StatusSet DEF Fail, Statuses, Inv, Typed
<1>3. IsTask(task') /\ task'.does = "nothing" /\ task'.at = "idle"
    BY DEF Fail, Nobody, IsTask, Kind
<1>4. ActiveOnes' \subseteq ActiveOnes
    BY <1>2 DEF ActiveOnes, Active
<1>5. \A q \in Recordings : /\ rec[q].ghidra # "saving" /\ (Alive(q) => q \in orphans)
                            /\ rec[q].status = "importing" => q = task.for
    BY <1>1 DEF Inv, Owned, PublishSteps
<1>6. \A q \in ActiveOnes' : rec'[q].status # "importing" /\ rec'[q].status = rec[q].status
    BY <1>2, <1>5 DEF ActiveOnes, Active
<1>7. Typed'
    BY <1>1, <1>2, <1>3 DEF Inv, Typed, queue, counts
<1>8. Established'
    BY <1>3 DEF Established, PublishSteps
<1>9. Owned'
  <2>1. task.does \notin {"nothing", "phase", "native"}
      BY <1>1 DEF Inv, Typed, IsTask, Kind
  <2>2. \A q \in Recordings : rec'[q].status # "none" => Of(q)' \in Binaries
      BY <1>2, <2>1 DEF Inv, Established, Owned, Of
  <2>3. \A q \in Recordings : rec'[q].status # "importing"
      BY <1>2, <1>5
  <2> QED BY <1>1, <1>2, <1>5, <2>2, <2>3 DEF Owned, Alive
<1>10. QuietCapture'
    BY <1>1, <1>2, <1>3, <1>4, <1>6 DEF Inv, QuietCapture, Of, queue, ActiveOnes
<1>11. OneRecorder'
    BY <1>1, <1>4 DEF Inv, OneRecorder, Alive
<1>12. ReportsAreTrue'
    BY <1>1, <1>2, <1>5 DEF Inv, ReportsAreTrue
<1> QED BY <1>7, <1>8, <1>9, <1>10, <1>11, <1>12 DEF Inv

LEMMA KeepsStop ==
    ASSUME Inv, NEW r \in Recordings, Stop(r)
    PROVE  Inv'
<1>1. /\ rec' \in Recs
      /\ \A q \in Recordings :
            /\ rec'[q].status = IF q = r THEN "stopping" ELSE rec[q].status
            /\ rec'[q].ghidra = rec[q].ghidra /\ rec'[q].binary = rec[q].binary
    BY StatusSet DEF Inv, Typed, Stop, Statuses, Active
<1>2. /\ rec[r].status \in {"starting", "recording", "stopping"}
      /\ UNCHANGED <<file, recorder, orphans, sessions, inGhidra, task, queue, counts>>
    BY DEF Stop
<1>3. \A q \in Recordings : rec'[q].status \in Active <=> rec[q].status \in Active
    BY <1>1, <1>2 DEF Active
<1>4. \A q \in Recordings : rec'[q].status = "importing" <=> rec[q].status = "importing"
    BY <1>1, <1>2
<1>5. ActiveOnes' = ActiveOnes
    BY <1>3 DEF ActiveOnes
<1>6. Typed'
    BY <1>1, <1>2 DEF Inv, Typed, IsTask, Kind, queue, counts
<1>7. Established'
    BY <1>2, <1>1, <1>3, <1>4 DEF Inv, Established, Typed, IsTask, Kind, PublishSteps, ImportSteps
<1>8. Owned'
    BY <1>1, <1>2, <1>4 DEF Inv, Owned, Alive, Of
<1>9. QuietCapture' /\ OneRecorder'
    BY <1>1, <1>2, <1>4, <1>5 DEF Inv, QuietCapture, OneRecorder, ActiveOnes, Of, Alive, queue
<1>10. ReportsAreTrue'
    BY <1>1, <1>2 DEF Inv, ReportsAreTrue
<1> QED BY <1>6, <1>7, <1>8, <1>9, <1>10 DEF Inv

USE RecordingAssumption DEF Inv, Typed, Established, Owned, QuietCapture, OneRecorder, ReportsAreTrue,
    At, Acquire, Go, recordings, queue, counts, Nobody, ImportSteps, PublishSteps,
    ActiveOnes, Active, Alive, Of, Busy, IsTask, Kind

LEMMA KeepsStartDropped ==
    ASSUME Inv, StartDropped
    PROVE  Inv'
<1>1. rec' = rec
    BY DEF StartDropped
<1>2. IsTask(task') /\ task'.does = "nothing" /\ task'.at = "idle"
    BY DEF StartDropped
<1> QED BY <1>1, <1>2 DEF StartDropped

LEMMA KeepsLaunch ==
    ASSUME Inv, Launch
    PROVE  Inv'
<1>1. rec' = rec
    BY DEF Launch
<1>2. /\ IsTask(task') /\ task'.does = task.does /\ task'.for = task.for
    BY Moved DEF Launch
<1> QED BY <1>1, <1>2 DEF Launch

LEMMA KeepsSeeProgress ==
    ASSUME Inv, SeeProgress
    PROVE  Inv'
<1>1. /\ task.for \in Recordings /\ rec' \in Recs
      /\ \A q \in Recordings :
            /\ rec'[q].status = IF q = task.for THEN "recording" ELSE rec[q].status
            /\ rec'[q].ghidra = rec[q].ghidra /\ rec'[q].binary = rec[q].binary
    BY StatusSet DEF SeeProgress, Statuses
<1>2. task' = task
    BY DEF SeeProgress
<1>3. Typed'
    BY <1>1, <1>2 DEF SeeProgress
<1>4. Established'
    BY <1>1, <1>2 DEF SeeProgress
<1>5. Owned'
    BY <1>1, <1>2 DEF SeeProgress
<1>6. QuietCapture'
    BY <1>1, <1>2 DEF SeeProgress
<1>7. OneRecorder'
    BY <1>1, <1>2 DEF SeeProgress
<1>8. ReportsAreTrue'
    BY <1>1, <1>2 DEF SeeProgress
<1> QED BY <1>3, <1>4, <1>5, <1>6, <1>7, <1>8

LEMMA KeepsSeeEnd ==
    ASSUME Inv, SeeEnd
    PROVE  Inv'
<1>1. rec' = rec
    BY DEF SeeEnd
<1>2. /\ IsTask(task') /\ task'.does = task.does /\ task'.for = task.for
    BY Moved DEF SeeEnd
<1> QED BY <1>1, <1>2 DEF SeeEnd, Killed

LEMMA KeepsAttach ==
    ASSUME Inv, NEW r \in Recordings, Attach(r)
    PROVE  Inv'
<1>1. rec' = rec
    BY DEF Attach
<1>2. task' = task
    BY DEF Attach
<1>3. Typed'
    BY <1>1, <1>2 DEF Attach
<1>4. Established'
    BY <1>1, <1>2 DEF Attach
<1>5. Owned'
    BY <1>1, <1>2 DEF Attach
<1>6. QuietCapture'
    BY <1>1, <1>2 DEF Attach
<1>7. OneRecorder'
    BY <1>1, <1>2 DEF Attach
<1>8. ReportsAreTrue'
    BY <1>1, <1>2 DEF Attach
<1> QED BY <1>3, <1>4, <1>5, <1>6, <1>7, <1>8

LEMMA KeepsReport ==
    ASSUME Inv, NEW r \in Recordings, Report(r)
    PROVE  Inv'
<1>1. rec' = rec
    BY DEF Report
<1>2. task' = task
    BY DEF Report
<1> QED BY <1>1, <1>2 DEF Report

LEMMA KeepsRecorderEnds ==
    ASSUME Inv, NEW r \in Recordings, RecorderEnds(r)
    PROVE  Inv'
<1>1. rec' = rec
    BY DEF RecorderEnds
<1>2. task' = task
    BY DEF RecorderEnds
<1>3. \A q \in Recordings : Alive(q)' => Alive(q)
    BY DEF RecorderEnds
<1>4. orphans' = orphans /\ sessions' = sessions /\ inGhidra' = inGhidra /\ UNCHANGED queue
    BY DEF RecorderEnds
<1>5. Typed'
    BY <1>1, <1>2, <1>3, <1>4 DEF RecorderEnds
<1>6. Established'
    BY <1>1, <1>2, <1>3, <1>4
<1>7. Owned'
    BY <1>1, <1>2, <1>3, <1>4
<1>8. QuietCapture'
    BY <1>1, <1>2, <1>3, <1>4
<1>9. OneRecorder'
    BY <1>1, <1>2, <1>3, <1>4
<1>10. ReportsAreTrue'
    BY <1>1, <1>2, <1>3, <1>4
<1> QED BY <1>5, <1>6, <1>7, <1>8, <1>9, <1>10

LEMMA KeepsImportEvidence ==
    ASSUME Inv, ImportEvidence
    PROVE  Inv'
<1>1. rec' = rec
    BY DEF ImportEvidence
<1>2. /\ IsTask(task') /\ task'.does = task.does /\ task'.for = task.for
    BY Moved DEF ImportEvidence
<1>3. Typed'
    BY <1>1, <1>2 DEF ImportEvidence, Quiet
<1>4. Established'
    BY <1>1, <1>2 DEF ImportEvidence, Quiet
<1>5. Owned'
    BY <1>1, <1>2 DEF ImportEvidence, Quiet
<1>6. QuietCapture'
    BY <1>1, <1>2 DEF ImportEvidence, Quiet
<1>7. OneRecorder'
    BY <1>1, <1>2 DEF ImportEvidence, Quiet
<1>8. ReportsAreTrue'
    BY <1>1, <1>2 DEF ImportEvidence, Quiet
<1> QED BY <1>3, <1>4, <1>5, <1>6, <1>7, <1>8

LEMMA KeepsImportDone ==
    ASSUME Inv, ImportDone
    PROVE  Inv'
<1>1. /\ task.for \in Recordings /\ rec' \in Recs
      /\ \A q \in Recordings :
            /\ rec'[q].status = IF q = task.for THEN "ready" ELSE rec[q].status
            /\ rec'[q].ghidra = rec[q].ghidra /\ rec'[q].binary = rec[q].binary
    BY StatusSet DEF ImportDone, Statuses
<1>2. /\ IsTask(task') /\ task'.does = task.does /\ task'.for = task.for
    BY Moved DEF ImportDone
<1> QED BY <1>1, <1>2 DEF ImportDone

LEMMA KeepsRecover ==
    ASSUME Inv, Recover
    PROVE  Inv'
<1>1. rec' = rec
    BY DEF Recover
<1>2. /\ IsTask(task') /\ task'.does = task.does /\ task'.for = task.for
    BY Moved DEF Recover
<1>3. Typed'
    BY <1>1, <1>2 DEF Recover
<1>4. Established'
    BY <1>1, <1>2 DEF Recover
<1>5. Owned'
    BY <1>1, <1>2 DEF Recover
<1>6. QuietCapture'
    BY <1>1, <1>2 DEF Recover
<1>7. OneRecorder'
    BY <1>1, <1>2 DEF Recover
<1>8. ReportsAreTrue'
    BY <1>1, <1>2 DEF Recover
<1> QED BY <1>3, <1>4, <1>5, <1>6, <1>7, <1>8

LEMMA KeepsPublishApply ==
    ASSUME Inv, PublishApply
    PROVE  Inv'
<1>1. rec' = rec
    BY DEF PublishApply
<1>2. /\ IsTask(task') /\ task'.does = task.does /\ task'.for = task.for
    BY Moved DEF PublishApply
<1> QED BY <1>1, <1>2 DEF PublishApply

LEMMA KeepsPublishVerify ==
    ASSUME Inv, PublishVerify
    PROVE  Inv'
<1>1. rec' = rec
    BY DEF PublishVerify
<1>2. /\ IsTask(task') /\ task'.does = task.does /\ task'.for = task.for
    BY Moved DEF PublishVerify
<1> QED BY <1>1, <1>2 DEF PublishVerify

LEMMA KeepsPublishExport ==
    ASSUME Inv, PublishExport
    PROVE  Inv'
<1>1. rec' = rec
    BY DEF PublishExport
<1>2. /\ IsTask(task') /\ task'.does = task.does /\ task'.for = task.for
    BY Moved DEF PublishExport
<1> QED BY <1>1, <1>2 DEF PublishExport

LEMMA KeepsAnalyzeDropped ==
    ASSUME Inv, AnalyzeDropped
    PROVE  Inv'
<1>1. rec' = rec
    BY DEF AnalyzeDropped
<1>2. IsTask(task') /\ task'.does = "nothing" /\ task'.at = "idle"
    BY DEF AnalyzeDropped
<1>3. task.does = "analyze" /\ UNCHANGED <<recorder, orphans, sessions, inGhidra, queue>>
    BY DEF AnalyzeDropped
<1>4. Typed'
    BY <1>1, <1>2, <1>3 DEF AnalyzeDropped
<1>5. Established'
    BY <1>1, <1>2, <1>3
<1>6. Owned'
    BY <1>1, <1>2, <1>3
<1>7. QuietCapture'
    BY <1>1, <1>2, <1>3
<1>8. OneRecorder'
    BY <1>1, RecordersStay DEF AnalyzeDropped
<1>9. ReportsAreTrue'
    BY <1>1, <1>2, <1>3
<1> QED BY <1>4, <1>5, <1>6, <1>7, <1>8, <1>9

LEMMA KeepsScopeAgain ==
    ASSUME Inv, ScopeAgain
    PROVE  Inv'
<1>1. rec' = rec
    BY DEF ScopeAgain
<1>2. /\ IsTask(task') /\ task'.does = task.does /\ task'.for = task.for
    BY Moved DEF ScopeAgain
<1>3. task.does = "analyze" /\ task.at = "scope again" /\ UNCHANGED <<recorder, orphans, sessions, inGhidra, queue>>
    BY DEF ScopeAgain
<1>4. Typed'
    BY <1>1, <1>2, <1>3 DEF ScopeAgain
<1>5. Established'
    BY <1>1, <1>2, <1>3
<1>6. Owned'
    BY <1>1, <1>2, <1>3
<1>7. QuietCapture'
    BY <1>1, <1>2, <1>3
<1>8. OneRecorder'
    BY <1>1, RecordersStay DEF ScopeAgain
<1>9. ReportsAreTrue'
    BY <1>1, <1>2, <1>3
<1> QED BY <1>4, <1>5, <1>6, <1>7, <1>8, <1>9

LEMMA KeepsScopeNew ==
    ASSUME Inv, ScopeNew
    PROVE  Inv'
<1>1. rec' = rec
    BY DEF ScopeNew
<1>2. /\ IsTask(task') /\ task'.does = task.does /\ task'.for = task.for
    BY Moved DEF ScopeNew
<1>3. Of(task.for) \in Binaries
    BY DEF ScopeNew
<1> QED BY <1>1, <1>2, <1>3 DEF ScopeNew

LEMMA KeepsResumeAnalysis ==
    ASSUME Inv, ResumeAnalysis
    PROVE  Inv'
<1>1. rec' = rec
    BY DEF ResumeAnalysis
<1>2. IsTask(task') /\ task'.does = "nothing" /\ task'.at = "idle"
    BY DEF ResumeAnalysis
<1> QED BY <1>1, <1>2 DEF ResumeAnalysis, MayResume

LEMMA KeepsWritingEnds ==
    ASSUME Inv, WritingEnds
    PROVE  Inv'
<1>1. rec' = rec
    BY DEF WritingEnds
<1>2. IsTask(task') /\ task'.does = "nothing" /\ task'.at = "idle"
    BY DEF WritingEnds
<1> QED BY <1>1, <1>2 DEF WritingEnds

LEMMA KeepsAnalyze ==
    ASSUME Inv, NEW r \in Recordings, Analyze(r)
    PROVE  Inv'
<1>1. rec' = rec
    BY DEF Analyze
<1>2. /\ task.does = "nothing" /\ IsTask(task') /\ task'.for = r
    BY DEF Analyze
<1> QED BY <1>1, <1>2 DEF Analyze

LEMMA KeepsPhase ==
    ASSUME Inv, NEW b \in Binaries, Phase(b)
    PROVE  Inv'
<1>1. rec' = rec
    BY DEF Phase
<1>2. /\ task.does = "nothing" /\ IsTask(task') /\ task'.for = b
    BY DEF Phase
<1> QED BY <1>1, <1>2 DEF Phase

LEMMA KeepsNative ==
    ASSUME Inv, NEW b \in Binaries, Native(b)
    PROVE  Inv'
<1>1. rec' = rec
    BY DEF Native
<1>2. /\ task.does = "nothing" /\ IsTask(task') /\ task'.for = b
    BY DEF Native
<1> QED BY <1>1, <1>2 DEF Native

LEMMA KeepsClaim ==
    ASSUME Inv, NEW b \in Binaries, Claim(b)
    PROVE  Inv'
<1>1. rec' = rec
    BY DEF Claim
<1>2. task' = task
    BY DEF Claim
<1>3. b \notin paused /\ open' = open \cup {b} /\ UNCHANGED <<recorder, orphans, sessions, inGhidra, paused, lost>>
    BY DEF Claim
<1>4. Typed'
    BY <1>1, <1>2, <1>3 DEF Claim
<1>5. Established'
    BY <1>1, <1>2, <1>3
<1>6. Owned'
    BY <1>1, <1>2, <1>3
<1>7. QuietCapture'
    BY <1>1, <1>2, QueueMoves DEF Claim
<1>8. OneRecorder'
    BY <1>1, RecordersStay DEF Claim
<1>9. ReportsAreTrue'
    BY <1>1, <1>2, <1>3
<1> QED BY <1>4, <1>5, <1>6, <1>7, <1>8, <1>9

LEMMA KeepsJobEnds ==
    ASSUME Inv, NEW b \in Binaries, JobEnds(b)
    PROVE  Inv'
<1>1. rec' = rec
    BY DEF JobEnds
<1>2. task' = task
    BY DEF JobEnds
<1>3. open' \cup lost' \subseteq open \cup lost
    BY DEF JobEnds
<1>4. Typed'
    BY <1>1, <1>2, <1>3 DEF JobEnds
<1>5. Established'
    BY <1>1, <1>2, <1>3 DEF JobEnds
<1>6. Owned'
    BY <1>1, <1>2, <1>3 DEF JobEnds
<1>7. QuietCapture'
    BY <1>1, <1>2, QueueMoves DEF JobEnds
<1>8. OneRecorder'
    BY <1>1, RecordersStay DEF JobEnds
<1>9. ReportsAreTrue'
    BY <1>1, <1>2, <1>3 DEF JobEnds
<1> QED BY <1>4, <1>5, <1>6, <1>7, <1>8, <1>9

LEMMA KeepsControl ==
    ASSUME Inv, NEW b \in Binaries, Control(b)
    PROVE  Inv'
<1>1. rec' = rec
    BY DEF Control
<1>2. task' = task
    BY DEF Control
<1>3. paused' \subseteq Binaries /\ lost' \subseteq Binaries
    BY DEF Control
<1>4. acts' \in 0 .. MaxActs
    BY Counted DEF Control
<1>5. Typed'
    BY <1>1, <1>2, <1>3, <1>4 DEF Control, MayResume
<1>6. Established'
    BY <1>1, <1>2, <1>3, <1>4 DEF Control, MayResume
<1>7. Owned'
    BY <1>1, <1>2, <1>3, <1>4 DEF Control, MayResume
<1>8. QuietCapture'
  <2>1. CASE paused' = paused \cup {b} /\ lost' = lost
      BY <1>1, <1>2, <2>1 DEF Control
  <2>2. CASE MayResume(b) /\ paused' = paused \ {b} /\ lost' = lost
      BY <1>1, <1>2, <2>2 DEF Control, MayResume
  <2>3. CASE lost' = lost \ {b} /\ paused' = paused
      BY <1>1, <1>2, <2>3 DEF Control
  <2> QED BY <2>1, <2>2, <2>3 DEF Control
<1>9. OneRecorder'
    BY <1>1, RecordersStay DEF Control
<1>10. ReportsAreTrue'
    BY <1>1, <1>2, <1>3, <1>4 DEF Control, MayResume
<1> QED BY <1>5, <1>6, <1>7, <1>8, <1>9, <1>10

LEMMA KeepsStart ==
    ASSUME Inv, NEW r \in Recordings, NEW b \in Binaries, Start(r, b)
    PROVE  Inv'
<1>1. /\ rec' \in Recs
      /\ rec'[r].status = "starting" /\ rec'[r].binary = b /\ rec'[r].ghidra = rec[r].ghidra
      /\ \A q \in Recordings \ {r} : rec'[q] = rec[q]
    BY Started DEF Start
<1>2. /\ task.does = "nothing" /\ ActiveOnes = {} /\ b \in paused' \ (open' \cup lost')
      /\ task' = [does |-> "record", at |-> "accepted", for |-> r]
    BY DEF Start
<1>3. ActiveOnes' = {r}
    BY <1>1, <1>2
<1>4. UNCHANGED <<file, recorder, orphans, sessions, inGhidra, open, lost, counts>>
    BY DEF Start
<1>5. Typed'
    BY <1>1, <1>2 DEF Start
<1>6. Established' /\ Owned'
    BY <1>1, <1>2, <1>4
<1>7. QuietCapture' /\ OneRecorder' /\ ReportsAreTrue'
    BY <1>1, <1>2, <1>3, <1>4
<1> QED BY <1>5, <1>6, <1>7

LEMMA KeepsImportBegin ==
    ASSUME Inv, ImportBegin
    PROVE  Inv'
<1>1. /\ task.at = "importing" /\ task.for \in Recordings /\ task.does \in {"record", "recover"}
      /\ UNCHANGED <<file, recorder, orphans, sessions, inGhidra, queue, counts>>
    BY DEF ImportBegin
<1>2. CASE ActiveOnes \subseteq {task.for} /\ SetStatus(task.for, "importing") /\ Go("evidence")
  <2>1. /\ rec' \in Recs
        /\ \A q \in Recordings :
              /\ rec'[q].status = IF q = task.for THEN "importing" ELSE rec[q].status
              /\ rec'[q].ghidra = rec[q].ghidra /\ rec'[q].binary = rec[q].binary
      BY <1>1, <1>2, StatusSet DEF Statuses
  <2>2. /\ IsTask(task') /\ task'.at = "evidence"
        /\ task'.does = task.does /\ task'.for = task.for
      BY <1>1, <1>2, Moved
  <2>3. ActiveOnes' = {task.for}
      BY <1>1, <1>2, <2>1
  <2>4. Typed' /\ Established'
      BY <1>1, <2>1, <2>2
  <2>5. rec[task.for].status # "none"
      BY <1>1
  <2>6. Owned'
      BY <1>1, <2>1, <2>2, <2>5
  <2>7. QuietCapture' /\ OneRecorder' /\ ReportsAreTrue'
      BY <1>1, <2>1, <2>2, <2>3
  <2> QED BY <2>4, <2>6, <2>7
<1>3. CASE Go("failing") /\ UNCHANGED rec
  <2>1. /\ IsTask(task') /\ task'.at = "failing"
        /\ task'.does = task.does /\ task'.for = task.for
      BY <1>1, <1>3, Moved
  <2> QED BY <1>1, <1>3, <2>1
<1> QED BY <1>2, <1>3 DEF ImportBegin

LEMMA KeepsPublishBegin ==
    ASSUME Inv, PublishBegin
    PROVE  Inv'
<1>1. /\ task.at = "publish" /\ task.for \in Recordings
      /\ UNCHANGED <<file, recorder, orphans, sessions, inGhidra, queue, counts>>
    BY DEF PublishBegin
<1>2. CASE rec[task.for].status = "ready" /\ SetGhidra(task.for, "saving") /\ Go("apply")
  <2>1. /\ rec' \in Recs
        /\ \A q \in Recordings :
              /\ rec'[q].ghidra = IF q = task.for THEN "saving" ELSE rec[q].ghidra
              /\ rec'[q].status = rec[q].status /\ rec'[q].binary = rec[q].binary
      BY <1>1, <1>2, GhidraSet
  <2>2. /\ IsTask(task') /\ task'.at = "apply"
        /\ task'.does = task.does /\ task'.for = task.for
      BY <1>1, <1>2, Moved
  <2>3. Typed' /\ Established' /\ Owned'
      BY <1>1, <1>2, <2>1, <2>2
  <2>4. QuietCapture' /\ OneRecorder' /\ ReportsAreTrue'
      BY <1>1, <1>2, <2>1, <2>2
  <2> QED BY <2>3, <2>4
<1>3. CASE task' = Nobody /\ UNCHANGED rec
    BY <1>1, <1>3
<1> QED BY <1>2, <1>3 DEF PublishBegin

LEMMA KeepsPublishEnd ==
    ASSUME Inv, PublishEnd
    PROVE  Inv'
<1>1. /\ task.at \in {"saved", "unsaved"} /\ task.for \in Recordings
      /\ rec' \in Recs
      /\ \A q \in Recordings :
            /\ rec'[q].ghidra = IF q = task.for
                                THEN IF task.at = "saved" THEN "saved" ELSE "retry"
                                ELSE rec[q].ghidra
            /\ rec'[q].status = rec[q].status /\ rec'[q].binary = rec[q].binary
    BY PublishedStatus
<1>2. /\ task' = Nobody
      /\ UNCHANGED <<file, recorder, orphans, sessions, inGhidra, queue, counts>>
    BY DEF PublishEnd
<1>3. ActiveOnes' = ActiveOnes
    BY <1>1
<1>4. Typed' /\ Established' /\ Owned'
    BY <1>1, <1>2
<1>5. QuietCapture'
    BY <1>1, <1>2, <1>3
<1>6. OneRecorder'
    BY <1>2, <1>3
<1>7. ReportsAreTrue'
    BY <1>1, <1>2
<1> QED BY <1>4, <1>5, <1>6, <1>7

LEMMA KeepsStoreRun ==
    ASSUME Inv, StoreRun
    PROVE  Inv'
<1>1. /\ task.does = "analyze" /\ task.at = "store" /\ task.for \in Recordings
      /\ UNCHANGED <<file, recorder, orphans, sessions, inGhidra, queue, counts>>
    BY DEF StoreRun
<1>2. /\ rec' \in Recs
      /\ \A q \in Recordings : /\ rec'[q].status = rec[q].status
                               /\ rec'[q].ghidra = rec[q].ghidra
                               /\ rec'[q].binary = rec[q].binary
    BY <1>1, Stored DEF StoreRun
<1>3. /\ IsTask(task') /\ task'.at = "resume"
      /\ task'.does = task.does /\ task'.for = task.for
    BY <1>1, Moved DEF StoreRun
<1>4. ActiveOnes' = ActiveOnes
    BY <1>2
<1>5. Typed' /\ Established' /\ Owned'
    BY <1>1, <1>2, <1>3
<1>6. QuietCapture' /\ OneRecorder' /\ ReportsAreTrue'
    BY <1>1, <1>2, <1>3, <1>4
<1> QED BY <1>5, <1>6

LEMMA KeepsRestart ==
    ASSUME Inv, Restart
    PROVE  Inv'
<1>1. /\ rec' \in Recs
      /\ \A q \in Recordings :
            /\ rec'[q].status = IF rec[q].status \in Active THEN "interrupted" ELSE rec[q].status
            /\ rec'[q].ghidra = IF rec[q].ghidra = "saving" THEN "retry" ELSE rec[q].ghidra
            /\ rec'[q].binary = rec[q].binary
      /\ \A q \in Recordings : rec'[q].status \notin Active /\ rec'[q].ghidra # "saving"
    BY Interrupted DEF Restart
<1>2. /\ task' = Nobody /\ orphans' = orphans \cup {r \in Recordings : Alive(r)}
      /\ UNCHANGED <<file, recorder, sessions, inGhidra>>
    BY DEF Restart
<1>3. ActiveOnes' = {}
    BY <1>1
<1>4. /\ orphans' \subseteq Recordings
      /\ paused' \subseteq Binaries /\ open' \subseteq Binaries /\ lost' \subseteq Binaries
      /\ restarts' \in 0 .. MaxRestarts /\ acts' = acts
    BY RestartCounts DEF Restart
<1>5. IsTask(task') /\ task'.does = "nothing" /\ task'.at = "idle"
    BY <1>2
<1>6. Typed'
    BY <1>1, <1>2, <1>4, <1>5
<1>7. Established'
    BY <1>5
<1>8. Owned'
  <2>1. \A q \in Recordings : rec'[q].status # "importing" /\ rec'[q].ghidra # "saving"
      BY <1>1
  <2>3. \A q \in Recordings : rec'[q].status # "none" => Of(q)' \in Binaries
      BY <1>1
  <2>2. \A q \in Recordings : ~(Alive(q)' /\ q \notin orphans')
      BY <1>2
  <2> QED BY <2>1, <2>2, <2>3
<1>9. QuietCapture'
    BY <1>3
<1>10. OneRecorder'
    BY <1>2, <1>3
<1>11. ReportsAreTrue'
  <2>1. \A q \in Recordings : rec'[q].ghidra # "saving"
      BY <1>1
  <2>2. \A q \in Recordings : /\ rec'[q].status = "ready" => rec[q].status = "ready"
                              /\ rec'[q].ghidra = "saved" => rec[q].ghidra = "saved"
      BY <1>1
  <2> QED BY <1>2, <2>1, <2>2
<1> QED BY <1>6, <1>7, <1>8, <1>9, <1>10, <1>11

LEMMA KeepsHandle ==
    ASSUME Inv, NEW r \in Recordings, NEW action \in {"recover", "publish"}, Handle(r, action)
    PROVE  Inv'
<1>1. /\ task.does = "nothing" /\ IsTask(task') /\ UNCHANGED <<recordings, queue, counts>>
      /\ task' = [does |-> action, at |-> action, for |-> r]
    BY DEF Handle
<1>2. Typed'
    BY <1>1
<1>5. Established'
  <2>1. rec[r].status # "none" /\ rec' = rec
      BY <1>1 DEF Handle
  <2> QED BY <1>1, <2>1
<1>3. Owned'
    BY <1>1
<1>4. OneRecorder'
    BY <1>1, RecordersStay
<1>7. ReportsAreTrue'
    BY <1>1
<1>6. QuietCapture'
  <2>1. \A q \in ActiveOnes : rec[q].status # "importing"
      BY <1>1
  <2> QED BY <1>1, <2>1
<1> QED BY <1>2, <1>3, <1>4, <1>5, <1>6, <1>7

HIDE DEF Inv, Typed, Established, Owned, QuietCapture, OneRecorder, ReportsAreTrue,
    At, Acquire, Go, recordings, queue, counts, Nobody, ImportSteps, PublishSteps,
    ActiveOnes, Active, Alive, Of, Busy, IsTask, Kind

-----------------------------------------------------------------------------
LEMMA InvStarts == Init => Inv
<1> SUFFICES ASSUME Init PROVE Inv
    OBVIOUS
<1>1. rec \in Recs /\ \A r \in Recordings : rec[r].status = "none" /\ rec[r].ghidra = "pending"
    BY DEF Init, Recs, Statuses
<1>2. IsTask(task) /\ task.does = "nothing" /\ task.at = "idle"
    BY DEF Init, Nobody, IsTask, Kind
<1>3. ActiveOnes = {} /\ \A r \in Recordings : ~Alive(r)
    BY <1>1 DEF Init, ActiveOnes, Active, Alive
<1>4. Typed
    BY <1>1, <1>2, RecordingAssumption DEF Init, Typed
<1>5. Established /\ Owned
    BY <1>1, <1>2, <1>3 DEF Established, Owned, PublishSteps
<1>6. QuietCapture /\ OneRecorder /\ ReportsAreTrue
    BY <1>1, <1>3 DEF QuietCapture, OneRecorder, ReportsAreTrue
<1> QED BY <1>4, <1>5, <1>6 DEF Inv

LEMMA InvStays == Inv /\ [Next]_vars => Inv'
<1> SUFFICES ASSUME Inv, [Next]_vars PROVE Inv'
    OBVIOUS
<1>1. CASE Calls
    BY <1>1, KeepsStart, KeepsStop, KeepsAnalyze, KeepsHandle, KeepsStartDropped,
       KeepsAnalyzeDropped DEF Calls
<1>2. CASE RecorderStep
    BY <1>2, KeepsAttach, KeepsReport, KeepsRecorderEnds DEF RecorderStep
<1>3. CASE SeeProgress
    BY <1>3, KeepsSeeProgress
<1>4. CASE TaskStep
  <2>1. CASE Launch \/ SeeEnd \/ Fail \/ Recover \/ WritingEnds
      BY <2>1, KeepsLaunch, KeepsSeeEnd, KeepsFail, KeepsRecover, KeepsWritingEnds
  <2>2. CASE Importing
      BY <2>2, KeepsImportBegin, KeepsImportEvidence, KeepsImportDone DEF Importing
  <2>3. CASE Publishing
      BY <2>3, KeepsPublishBegin, KeepsPublishApply, KeepsPublishVerify, KeepsPublishExport,
         KeepsPublishEnd DEF Publishing
  <2>4. CASE Analyzing
      BY <2>4, KeepsScopeAgain, KeepsScopeNew, KeepsStoreRun, KeepsResumeAnalysis DEF Analyzing
  <2> QED BY <1>4, <2>1, <2>2, <2>3, <2>4 DEF TaskStep
<1>5. CASE QueueStep
    BY <1>5, KeepsPhase, KeepsNative, KeepsClaim, KeepsJobEnds, KeepsControl DEF QueueStep
<1>6. CASE Restart
    BY <1>6, KeepsRestart
<1>7. CASE UNCHANGED vars
  <2>1. UNCHANGED <<rec, file, recorder, orphans, sessions, inGhidra, task, paused, open, lost,
                    restarts, acts>>
      BY <1>7 DEF vars, recordings, queue, counts
  <2> QED BY <2>1 DEF Inv, Typed, Established, Owned, QuietCapture, OneRecorder, ReportsAreTrue,
             ActiveOnes, Alive, Of, IsTask, Kind
<1> QED BY <1>1, <1>2, <1>3, <1>4, <1>5, <1>6, <1>7 DEF Next

LEMMA InvHolds == Spec => []Inv
BY InvStarts, InvStays, PTL DEF Spec

\* The types of the variables, and the steps that a holder of the Ghidra gate goes through
\* (recording.rs, server.rs).
THEOREM RecordingTypes == Spec => []RecordingTypeOK
<1>1. Inv => RecordingTypeOK
    BY TaskKinds DEF Inv, Typed, RecordingTypeOK, Recs
<1> QED BY InvHolds, <1>1, PTL

\* start pauses the binary and looks for active jobs in one transaction, and the trigger
\* recording_pause_guard keeps it so: the queue is still as long as a capture and its own
\* import last.  An import by `recover` is not covered.
THEOREM CaptureIsQuiet == Spec => []QuietCapture
<1>1. Inv => QuietCapture
    BY DEF Inv
<1> QED BY InvHolds, <1>1, PTL

\* The index one_active_recording, the gate and kill_on_drop: one recording is active, and
\* two recorders run only when one of them was left behind by a server that stopped.
THEOREM RecordersTakeTurns == Spec => []OneRecorder
<1>1. Inv => OneRecorder
    BY DEF Inv
<1> QED BY InvHolds, <1>1, PTL

\* A recording is ready when it is imported and saved when it is in the Ghidra project, also
\* after a restart.
THEOREM RecordingReportsAreTrue == Spec => []ReportsAreTrue
<1>1. Inv => ReportsAreTrue
    BY DEF Inv
<1> QED BY InvHolds, <1>1, PTL

-----------------------------------------------------------------------------
\* What the queue of a binary, a phase of its recovery and its recordings promise each other.
\* Whether one request is open or several is all one to a recording.
Lock(b) == INSTANCE EvidenceLock WITH
    Requests <- {b},
    readers <- {b} \cap (open \cup lost),
    writing <- task.does = "phase" /\ task.for = b,
    held <- b \in paused

\* The record of a task; what a phase does is one step.
LEMMA AtGate ==
    ASSUME Typed
    PROVE  /\ task.does = "phase" => task.at = "writing"
           /\ task = [does |-> task.does, at |-> task.at, for |-> task.for]
BY DEF Typed, IsTask, Kind

\* Whoever takes the gate finds it free.
LEMMA Acquired ==
    ASSUME NEW does, NEW at, NEW for, Acquire(does, at, for)
    PROVE  task.does = "nothing" /\ task'.does = does /\ task'.for = for
BY DEF Acquire, Nobody

\* A phase of recovery takes the gate by Phase and in no other way.
LEMMA PhasesTakeTheGate ==
    ASSUME Typed, [Next]_vars, ~\E b \in Binaries : Phase(b)
    PROVE  task' = task \/ task'.does # "phase"
<1>1. CASE Calls
  <2>1. CASE StartDropped \/ AnalyzeDropped
      BY <2>1 DEF StartDropped, AnalyzeDropped, Nobody
  <2>2. ASSUME NEW r \in Recordings, Stop(r) PROVE task' = task
      BY <2>2 DEF Stop
  <2>3. ASSUME NEW r \in Recordings, NEW b \in Binaries, Start(r, b) PROVE task'.does = "record"
      BY <2>3, Acquired DEF Start
  <2>4. ASSUME NEW r \in Recordings, Analyze(r) PROVE task'.does = "analyze"
      BY <2>4, Acquired DEF Analyze
  <2>5. ASSUME NEW r \in Recordings, NEW a \in {"recover", "publish"}, Handle(r, a)
        PROVE  task'.does = a
      BY <2>5, Acquired DEF Handle
  <2> QED BY <1>1, <2>1, <2>2, <2>3, <2>4, <2>5 DEF Calls
<1>2. CASE RecorderStep \/ SeeProgress
    BY <1>2 DEF RecorderStep, Attach, Report, RecorderEnds, SeeProgress
<1>3. CASE Fail \/ Recover \/ WritingEnds \/ Launch \/ SeeEnd
  <2>1. CASE Fail \/ WritingEnds
      BY <2>1 DEF Fail, WritingEnds, Nobody
  <2>2. CASE Recover
      BY <2>2, AtGate DEF Recover, Go
  <2>3. CASE Launch \/ SeeEnd
      BY <2>3, AtGate DEF Launch, SeeEnd, At, Go
  <2> QED BY <1>3, <2>1, <2>2, <2>3
<1>4. CASE Importing
    BY <1>4, AtGate DEF Importing, ImportBegin, ImportEvidence, ImportDone, Go
<1>5. CASE Publishing
    BY <1>5, AtGate DEF Publishing, PublishBegin, PublishApply, PublishVerify, PublishExport,
                PublishEnd, Go, Nobody
<1>6. CASE Analyzing
  <2>1. CASE ResumeAnalysis
      BY <2>1 DEF ResumeAnalysis, Nobody
  <2>2. CASE ScopeAgain \/ ScopeNew \/ StoreRun
    <3>1. task.does = "analyze" /\ \E at \in {"resume", "store"} : Go(at)
        BY <2>2 DEF ScopeAgain, ScopeNew, StoreRun, At
    <3> QED BY <3>1, Moved DEF Typed
  <2> QED BY <1>6, <2>1, <2>2 DEF Analyzing
<1>7. ASSUME NEW b \in Binaries, Native(b) PROVE task'.does = "native"
    BY <1>7, Acquired DEF Native
<1>9. CASE \E b \in Binaries : Claim(b) \/ JobEnds(b) \/ Control(b)
    BY <1>9 DEF Claim, JobEnds, Control
<1>8. CASE Restart \/ UNCHANGED vars
    BY <1>8 DEF Restart, Nobody, vars
<1> QED BY <1>1, <1>2, <1>3, <1>4, <1>5, <1>6, <1>7, <1>8, <1>9 DEF Next, TaskStep, QueueStep

\* Requests come and go by the queue's own steps, and what pauses a binary, or lets it go on,
\* is no phase of recovery.
LEMMA QueueOrGate ==
    ASSUME Typed, [Next]_vars,
           ~\E b \in Binaries : Phase(b) \/ Claim(b) \/ JobEnds(b) \/ Control(b), ~Restart
    PROVE  /\ UNCHANGED <<open, lost>>
           /\ UNCHANGED paused \/ (task.does # "phase" /\ task'.does # "phase")
<1>1. CASE Calls
  <2>1. CASE StartDropped \/ AnalyzeDropped
      BY <2>1 DEF StartDropped, AnalyzeDropped, queue
  <2>2. ASSUME NEW r \in Recordings, Stop(r) PROVE UNCHANGED queue
      BY <2>2 DEF Stop
  <2>3. ASSUME NEW r \in Recordings, NEW b \in Binaries, Start(r, b)
        PROVE  UNCHANGED <<open, lost>> /\ task.does = "nothing" /\ task'.does = "record"
      BY <2>3, Acquired DEF Start
  <2>4. ASSUME NEW r \in Recordings, Analyze(r) PROVE UNCHANGED queue
      BY <2>4 DEF Analyze
  <2>5. ASSUME NEW r \in Recordings, NEW a \in {"recover", "publish"}, Handle(r, a)
        PROVE  UNCHANGED queue
      BY <2>5 DEF Handle
  <2> QED BY <1>1, <2>1, <2>2, <2>3, <2>4, <2>5 DEF Calls, queue
<1>2. CASE RecorderStep \/ SeeProgress
    BY <1>2 DEF RecorderStep, Attach, Report, RecorderEnds, SeeProgress, queue
<1>3. CASE Launch \/ SeeEnd \/ Fail \/ Recover \/ WritingEnds
    BY <1>3 DEF Launch, SeeEnd, Fail, Recover, WritingEnds, queue
<1>4. CASE Importing
    BY <1>4 DEF Importing, ImportBegin, ImportEvidence, ImportDone, queue
<1>5. CASE Publishing
    BY <1>5 DEF Publishing, PublishBegin, PublishApply, PublishVerify, PublishExport, PublishEnd,
                queue
<1>6. CASE Analyzing
  <2>1. CASE ResumeAnalysis
    <3>1. task.does = "analyze" /\ task' = Nobody /\ UNCHANGED <<open, lost>>
        BY <2>1 DEF ResumeAnalysis, At
    <3> QED BY <3>1 DEF Nobody
  <2>2. CASE ScopeAgain \/ StoreRun
      BY <2>2 DEF ScopeAgain, StoreRun, queue
  <2>3. CASE ScopeNew
    <3>1. task.does = "analyze" /\ Go("store") /\ UNCHANGED <<open, lost>>
        BY <2>3 DEF ScopeNew, At
    <3> QED BY <3>1, Moved DEF Typed
  <2> QED BY <1>6, <2>1, <2>2, <2>3 DEF Analyzing
<1>7. CASE \E b \in Binaries : Native(b)
    BY <1>7 DEF Native, queue
<1>8. CASE UNCHANGED vars
    BY <1>8 DEF vars, queue
<1> QED BY <1>1, <1>2, <1>3, <1>4, <1>5, <1>6, <1>7, <1>8 DEF Next, TaskStep, QueueStep

\* For every binary the recordings keep the lock that its queue and its recovery implement:
\* what they assume of the queue, that it admits nothing while it is paused, is what the
\* module Pipeline shows of it.
THEOREM RecordingImplementsLock ==
    ASSUME NEW b \in Binaries
    PROVE  Spec => Lock(b)!Spec
<1>1. ASSUME Init PROVE Lock(b)!Init
    BY <1>1 DEF Init, Nobody, Lock!Init
<1>2. ASSUME Inv, [Next]_vars PROVE [Lock(b)!Next]_(Lock(b)!vars)
  <2> DEFINE reading == {b} \cap (open \cup lost)
             writer == task.does = "phase" /\ task.for = b
  <2>0. Typed
      BY <1>2 DEF Inv
  <2>1. ASSUME NEW c \in Binaries, Phase(c) PROVE Lock(b)!Next \/ UNCHANGED Lock(b)!vars
    <3>1. /\ UNCHANGED <<paused, open, lost>> /\ c \notin paused \cup open \cup lost
          /\ task.does = "nothing" /\ task'.does = "phase" /\ task'.for = c
        BY <2>1 DEF Phase, Acquire, Nobody, queue
    <3>2. CASE c = b
        BY <3>1, <3>2 DEF Lock!Next, Lock!Acquire
    <3>3. CASE c # b
        BY <3>1, <3>3 DEF Lock!vars
    <3> QED BY <3>2, <3>3
  <2>2. ASSUME NEW c \in Binaries, Claim(c) PROVE Lock(b)!Next \/ UNCHANGED Lock(b)!vars
    <3>1. /\ UNCHANGED <<task, paused, lost>> /\ open' = open \cup {c} /\ c \notin paused
          /\ ~(task.does = "phase" /\ task.for = c)
        BY <2>2 DEF Claim
    <3>2. CASE c = b
        BY <3>1, <3>2 DEF Lock!Next, Lock!Enter
    <3>3. CASE c # b
        BY <3>1, <3>3 DEF Lock!vars
    <3> QED BY <3>2, <3>3
  <2>3. ASSUME NEW c \in Binaries, JobEnds(c) PROVE Lock(b)!Next
    <3>1. UNCHANGED <<task, paused>> /\ reading' \subseteq reading
        BY <2>3 DEF JobEnds
    <3> QED BY <3>1 DEF Lock!Next, Lock!Leave
  <2>4. ASSUME NEW c \in Binaries, Control(c) PROVE Lock(b)!Next
    <3>1. UNCHANGED <<task, open>>
        BY <2>4 DEF Control
    <3>2. CASE UNCHANGED lost
        BY <3>1, <3>2 DEF Lock!Next, Lock!Control
    <3>3. CASE lost' = lost \ {c} /\ UNCHANGED paused
        BY <3>1, <3>3 DEF Lock!Next, Lock!Leave
    <3> QED BY <2>4, <3>2, <3>3 DEF Control
  <2>5. CASE Restart
    <3>1. reading' = reading /\ paused \subseteq paused' /\ task'.does # "phase"
        BY <2>5 DEF Restart, Nobody
    <3>2. (b \in paused') = TRUE \/ (b \in paused') = (b \in paused)
        BY <3>1
    <3> QED BY <3>1, <3>2 DEF Lock!Next, Lock!Release
  <2>6. CASE ~Restart /\ ~\E c \in Binaries : Phase(c) \/ Claim(c) \/ JobEnds(c) \/ Control(c)
    <3>1. UNCHANGED <<open, lost>> /\ (task' = task \/ task'.does # "phase")
        BY <1>2, <2>0, <2>6, PhasesTakeTheGate, QueueOrGate
    <3>2. CASE task.does # "phase" /\ task'.does # "phase"
        BY <3>1, <3>2 DEF Lock!Next, Lock!Control
    <3>3. CASE UNCHANGED <<task, paused>>
        BY <3>1, <3>3 DEF Lock!vars
    <3>4. CASE UNCHANGED paused /\ task'.does # "phase"
        BY <3>1, <3>4 DEF Lock!Next, Lock!Release
    <3> QED BY <1>2, <2>0, <2>6, <3>1, <3>2, <3>3, <3>4, QueueOrGate
  <2> QED BY <2>1, <2>2, <2>3, <2>4, <2>5, <2>6
<1>3. Inv /\ [Next]_vars => [Lock(b)!Next]_(Lock(b)!vars)
    BY <1>2
<1> QED BY <1>1, <1>3, InvHolds, PTL DEF Spec, Lock!Spec
=============================================================================
