------------------------------ MODULE Recording ------------------------------
(***************************************************************************)
(* Managed recordings of a running program (recording.rs, runtime.rs), the *)
(* Ghidra gate of the server that serializes them with every other native  *)
(* operation (server.rs, mcp.rs, automatic.rs), and the queue of each      *)
(* binary, which a recording keeps still:                                  *)
(*                                                                         *)
(*   starting -> recording -> stopping -> importing -> ready               *)
(*      any of these -> failed (an error) or interrupted (a restart)       *)
(*      failed, interrupted -> importing (the operator recovers it)        *)
(*                                                                         *)
(* The recorder is a process of its own: it outlives the server, and what  *)
(* connects the two are files and a pipe.  The holder of the gate is the   *)
(* one task that runs; each of its steps ends at an await, where the       *)
(* operator acts, the recorder goes on, or the server stops.               *)
(***************************************************************************)
EXTENDS Naturals

CONSTANTS
    Binaries,
    Recordings,
    None,
    MaxRestarts,    \* a bound on the restarts of the server
    MaxActs         \* a bound on the pauses, resumptions and retries

ASSUME RecordingAssumption ==
    /\ None \notin Binaries \cup Recordings
    /\ MaxRestarts \in Nat /\ MaxActs \in Nat

VARIABLES
    rec,        \* recordings
    file,       \* the directory of a recording: a journal, and then a trace
    recorder,   \* the recorder process of a recording
    orphans,    \* recorders whose server has stopped, and with it their pipe
    sessions,   \* runtime_sessions: the imported recordings
    inGhidra,   \* recordings saved in the Ghidra project
    task,       \* the holder of ghidra_gate
    paused,     \* the paused binaries
    open, lost, \* binaries with a job that is open, that has an unknown outcome
    restarts, acts

recordings == <<rec, file, recorder, orphans, sessions, inGhidra>>
queue == <<paused, open, lost>>
counts == <<restarts, acts>>
vars == <<recordings, task, queue, counts>>

Active == {"starting", "recording", "stopping", "importing"}

Statuses == Active \cup {"none", "ready", "failed", "interrupted"}

Nobody == [does |-> "nothing", at |-> "idle", for |-> None]

ImportSteps == {"importing", "evidence", "imported"}

PublishSteps == {"publish", "apply", "verify", "export", "saved", "unsaved"}

Tasks ==
    {Nobody}
    \cup [does : {"record"}, for : Recordings,
          at : {"accepted", "watching", "failing"} \cup ImportSteps \cup PublishSteps]
    \cup [does : {"recover"}, for : Recordings,
          at : {"recover", "failing"} \cup ImportSteps \cup PublishSteps]
    \cup [does : {"publish"}, for : Recordings, at : PublishSteps]
    \cup [does : {"analyze"}, for : Recordings,
          at : {"scope", "scope again", "store", "resume"}]
    \cup [does : {"phase", "native"}, for : Binaries, at : {"writing"}]

Init ==
    /\ rec = [r \in Recordings |->
                [status |-> "none", binary |-> None, analyzed |-> FALSE, ghidra |-> "pending"]]
    /\ file = [r \in Recordings |-> "none"]
    /\ recorder = [r \in Recordings |-> "none"]
    /\ orphans = {} /\ sessions = {} /\ inGhidra = {}
    /\ task = Nobody
    /\ paused = {} /\ open = {} /\ lost = {}
    /\ restarts = 0 /\ acts = 0

-----------------------------------------------------------------------------
ActiveOnes == {r \in Recordings : rec[r].status \in Active}

Of(r) == rec[r].binary

SetStatus(r, status) == rec' = [rec EXCEPT ![r].status = status]

Alive(r) == recorder[r] \in {"launched", "attached", "capturing"}

At(does, at) == task.does = does /\ task.at = at

\* try_acquire_owned, which does not wait.
Acquire(does, at, for) ==
    /\ task = Nobody
    /\ task' = [does |-> does, at |-> at, for |-> for]

Go(at) == task' = [task EXCEPT !.at = at]

\* Mutant: batched requests and unknown outcomes are not counted.
StillBusy(b) == b \in open

Busy(b) == b \in open \cup lost

\* start_recording and recording::start: one transaction pauses the binary, looks for
\* active jobs and for an active recording, and stores this one.
Start(r, b) ==
    /\ rec[r].status = "none"
    /\ ~Busy(b) /\ ActiveOnes = {}
    /\ Acquire("record", "accepted", r)
    /\ rec' = [rec EXCEPT ![r].status = "starting", ![r].binary = b]
    /\ paused' = paused \cup {b}
    /\ UNCHANGED <<file, recorder, orphans, sessions, inGhidra, open, lost,
                   counts>>

\* The caller hangs up before the server has handed the recording to a task of its own.
StartDropped ==
    /\ At("record", "accepted")
    /\ task' = Nobody
    /\ UNCHANGED <<recordings, queue, counts>>

\* recording::run starts the recorder.
Launch ==
    /\ At("record", "accepted")
    /\ \/ /\ recorder' = [recorder EXCEPT ![task.for] = "launched"]
          /\ Go("watching")
       \/ Go("failing") /\ UNCHANGED recorder
    /\ UNCHANGED <<rec, file, orphans, sessions, inGhidra, queue, counts>>

\* The loop of run sees the first report of the recorder...
SeeProgress ==
    /\ At("record", "watching")
    /\ recorder[task.for] = "capturing"
    /\ rec[task.for].status = "starting"
    /\ SetStatus(task.for, "recording")
    /\ UNCHANGED <<file, recorder, orphans, sessions, inGhidra, task, queue, counts>>

\* Mutant: no deadline, the recorder is waited for.
SeeEndAlone ==
    /\ At("record", "watching") /\ ~Alive(task.for)
    /\ Go(IF recorder[task.for] = "complete" THEN "importing" ELSE "failing")
    /\ UNCHANGED <<recordings, queue, counts>>

\* Mutant: the recorder is left running when its time is over.
LeftRunning(r) == recorder[r]

Killed(r) == IF Alive(r) THEN "broken" ELSE recorder[r]

\* ...and its end; or the deadline passes, and the recorder is killed.
SeeEnd ==
    /\ At("record", "watching")
    /\ \/ recorder[task.for] = "complete" /\ Go("importing")
       \/ Go("failing")
    /\ recorder' = [recorder EXCEPT ![task.for] = Killed(task.for)]
    /\ UNCHANGED <<rec, file, orphans, sessions, inGhidra, queue, counts>>

\* recording::fail.
Fail ==
    /\ task.at = "failing"
    /\ SetStatus(task.for, "failed")
    /\ task' = Nobody
    /\ UNCHANGED <<file, recorder, orphans, sessions, inGhidra, queue, counts>>

-----------------------------------------------------------------------------
\* The recorder (capture.py) opens its journal, reports, and ends when it is told to,
\* when its pipe or its time ends, or when the program does.
Attach(r) ==
    /\ recorder[r] = "launched"
    /\ recorder' = [recorder EXCEPT ![r] = "attached"]
    /\ file' = [file EXCEPT ![r] = IF @ = "none" THEN "journal" ELSE @]
    /\ UNCHANGED <<rec, orphans, sessions, inGhidra, task, queue, counts>>

Report(r) ==
    /\ recorder[r] = "attached"
    /\ recorder' = [recorder EXCEPT ![r] = "capturing"]
    /\ UNCHANGED <<rec, file, orphans, sessions, inGhidra, task, queue, counts>>

RecorderEnds(r) ==
    /\ Alive(r)
    /\ \/ /\ recorder[r] = "capturing"
          /\ recorder' = [recorder EXCEPT ![r] = "complete"]
          /\ file' = [file EXCEPT ![r] = "trace"]
       \/ /\ recorder' = [recorder EXCEPT ![r] = "broken"]
          /\ \/ UNCHANGED file
             \/ recorder[r] = "capturing" /\ file' = [file EXCEPT ![r] = "trace"]
    /\ UNCHANGED <<rec, orphans, sessions, inGhidra, task, queue, counts>>

\* control_recording "stop": a command file and a status.
Stop(r) ==
    /\ rec[r].status \in {"starting", "recording", "stopping"}
    /\ SetStatus(r, "stopping")
    /\ UNCHANGED <<file, recorder, orphans, sessions, inGhidra, task, queue, counts>>

-----------------------------------------------------------------------------
\* import_saved, of a recording that ended or that is recovered.
ImportBegin ==
    /\ task.at = "importing"
    /\ IF ActiveOnes \subseteq {task.for}
       THEN SetStatus(task.for, "importing") /\ Go("evidence")
       ELSE Go("failing") /\ UNCHANGED rec
    /\ UNCHANGED <<file, recorder, orphans, sessions, inGhidra, queue, counts>>

Quiet(b) == b \in paused /\ ~Busy(b)

\* runtime::import: an imported session is not looked at again.
ImportEvidence ==
    LET r == task.for
    IN  /\ task.at = "evidence"
        /\ \/ r \in sessions /\ Go("imported") /\ UNCHANGED sessions
           \/ /\ r \notin sessions /\ Quiet(Of(r))
              /\ sessions' = sessions \cup {r} /\ Go("imported")
           \/ Go("failing") /\ UNCHANGED sessions
        /\ UNCHANGED <<rec, file, recorder, orphans, inGhidra, queue, counts>>

ImportDone ==
    /\ task.at = "imported"
    /\ SetStatus(task.for, "ready")
    /\ Go("publish")
    /\ UNCHANGED <<file, recorder, orphans, sessions, inGhidra, queue, counts>>

-----------------------------------------------------------------------------
\* control_recording "recover" and "publish".
Handle(r, action) ==
    /\ rec[r].status # "none"
    /\ Acquire(action, action, r)
    /\ UNCHANGED <<recordings, queue, counts>>

\* recording::recover; it knows an old recorder by its report.
Recover ==
    LET r == task.for
    IN  /\ task.at = "recover"
        /\ IF rec[r].status \in {"failed", "interrupted"} /\ recorder[r] # "capturing"
           THEN \/ file[r] # "none" /\ Go("importing") /\ file' = [file EXCEPT ![r] = "trace"]
                \/ file[r] # "trace" /\ Go("failing") /\ UNCHANGED file
           ELSE Go("failing") /\ UNCHANGED file
        /\ UNCHANGED <<rec, recorder, orphans, sessions, inGhidra, queue, counts>>

SetGhidra(r, status) == rec' = [rec EXCEPT ![r].ghidra = status]

PublishBegin ==
    /\ task.at = "publish"
    /\ IF rec[task.for].status = "ready"
       THEN SetGhidra(task.for, "saving") /\ Go("apply")
       ELSE task' = Nobody /\ UNCHANGED rec
    /\ UNCHANGED <<file, recorder, orphans, sessions, inGhidra, queue, counts>>

\* PistonRuntime saves bookmarks and a manifest...
PublishApply ==
    /\ task.at = "apply"
    /\ inGhidra' \in {inGhidra, inGhidra \cup {task.for}}
    /\ \/ Go("verify") /\ task.for \in inGhidra'
       \/ Go("unsaved")
    /\ UNCHANGED <<rec, file, recorder, orphans, sessions, queue, counts>>

\* ...a second process finds them...
PublishVerify ==
    /\ task.at = "verify"
    /\ Go("export") \/ Go("unsaved")
    /\ UNCHANGED <<recordings, queue, counts>>

\* ...and the program is exported again.
PublishExport ==
    /\ task.at = "export"
    /\ Go("saved") \/ Go("unsaved")
    /\ UNCHANGED <<recordings, queue, counts>>

PublishEnd ==
    /\ task.at \in {"saved", "unsaved"}
    /\ SetGhidra(task.for, IF task.at = "saved" THEN "saved" ELSE "retry")
    /\ task' = Nobody
    /\ UNCHANGED <<file, recorder, orphans, sessions, inGhidra, queue, counts>>

-----------------------------------------------------------------------------
\* control_recording "analyze" runs in the call itself: it ends when the caller hangs up.
Analyze(r) ==
    /\ rec[r].status = "ready" /\ ActiveOnes = {}
    /\ Acquire("analyze", IF rec[r].analyzed THEN "scope again" ELSE "scope", r)
    /\ UNCHANGED <<recordings, queue, counts>>

AnalyzeDropped ==
    /\ task.does = "analyze"
    /\ task' = Nobody
    /\ UNCHANGED <<recordings, queue, counts>>

\* The run that is stored becomes the scope again.
ScopeAgain ==
    /\ At("analyze", "scope again")
    /\ Go("resume")
    /\ UNCHANGED <<recordings, queue, counts>>

\* knowledge::reanalyze_scope.
ScopeNew ==
    LET b == Of(task.for)
    IN  /\ At("analyze", "scope")
        /\ paused' = paused \cup {b}
        /\ Go("store")
        /\ UNCHANGED <<recordings, open, lost, counts>>

StoreRun ==
    /\ At("analyze", "store")
    /\ rec' = [rec EXCEPT ![task.for].analyzed = TRUE]
    /\ Go("resume")
    /\ UNCHANGED <<file, recorder, orphans, sessions, inGhidra, queue, counts>>

\* The trigger recording_pause_guard.
MayResume(b) == \A r \in ActiveOnes : Of(r) # b

\* pipeline::control "resume"; what it prepares before may fail.
ResumeAnalysis ==
    LET b == Of(task.for)
    IN  /\ At("analyze", "resume")
        /\ task' = Nobody
        /\ \/ MayResume(b) /\ paused' = paused \ {b}
           \/ UNCHANGED paused
        /\ UNCHANGED <<recordings, open, lost, counts>>

-----------------------------------------------------------------------------
\* Other holders of the gate: a phase of automatic recovery...
Phase(b) ==
    /\ b \notin paused \cup open \cup lost
    /\ Acquire("phase", "writing", b)
    /\ UNCHANGED <<recordings, queue, counts>>

\* ...and extraction, the desktop, change sets and the tools of MCP.
Native(b) ==
    /\ Acquire("native", "writing", b)
    /\ UNCHANGED <<recordings, queue, counts>>

WritingEnds ==
    /\ task.at = "writing"
    /\ task' = Nobody
    /\ UNCHANGED <<recordings, queue, counts>>

\* A worker, which stays away while a phase of its binary runs.
Claim(b) ==
    /\ b \notin paused \cup open /\ ~(task.does = "phase" /\ task.for = b)
    /\ open' = open \cup {b}
    /\ UNCHANGED <<recordings, task, paused, lost, counts>>

JobEnds(b) ==
    /\ b \in open
    /\ open' = open \ {b}
    /\ lost' \in {lost, lost \cup {b}}
    /\ UNCHANGED <<recordings, task, paused, counts>>

Act == acts < MaxActs /\ acts' = acts + 1

\* pipeline::control.
Control(b) ==
    /\ Act
    /\ \/ paused' = paused \cup {b} /\ UNCHANGED lost
       \/ MayResume(b) /\ paused' = paused \ {b} /\ UNCHANGED lost
       \/ lost' = lost \ {b} /\ UNCHANGED paused
    /\ UNCHANGED <<recordings, task, open, restarts>>

\* Mutant: what is said of Ghidra becomes "interrupted" as well.
BothInterrupted(r) ==
    [rec[r] EXCEPT !.status = IF @ \in Active THEN "interrupted" ELSE @,
                   !.ghidra = IF @ = "saving" THEN "interrupted" ELSE @]

\* Mutant: a restart does not look at the recordings.
AsTheyWere(r) == rec[r]

Recovered(r) ==
    [rec[r] EXCEPT !.status = IF @ \in Active THEN "interrupted" ELSE @,
                   !.ghidra = IF @ = "saving" THEN "retry" ELSE @]

\* The server stops: the pipe to the recorder ends.  Db::recover cleans up.
Restart ==
    /\ restarts < MaxRestarts /\ restarts' = restarts + 1
    /\ task' = Nobody
    /\ orphans' = orphans \cup {r \in Recordings : Alive(r)}
    /\ rec' = [r \in Recordings |-> Recovered(r)]
    /\ lost' = lost \cup open /\ open' = {}
    /\ paused' = paused \cup lost'
    /\ UNCHANGED <<file, recorder, sessions, inGhidra, acts>>

-----------------------------------------------------------------------------
RecorderStep == \E r \in Recordings : Attach(r) \/ Report(r) \/ RecorderEnds(r)

Importing == ImportBegin \/ ImportEvidence \/ ImportDone

Publishing ==
    PublishBegin \/ PublishApply \/ PublishVerify \/ PublishExport \/ PublishEnd

Analyzing == ScopeAgain \/ ScopeNew \/ StoreRun \/ ResumeAnalysis

TaskStep == \/ Launch \/ SeeEnd \/ Fail \/ Recover \/ Importing \/ Publishing
            \/ Analyzing \/ WritingEnds

Calls == \/ \E r \in Recordings, b \in Binaries : Start(r, b)
         \/ \E r \in Recordings : \/ Stop(r) \/ Analyze(r)
                                  \/ Handle(r, "recover") \/ Handle(r, "publish")
         \/ StartDropped \/ AnalyzeDropped

QueueStep == \E b \in Binaries : \/ Phase(b) \/ Native(b)
                                 \/ Claim(b) \/ JobEnds(b) \/ Control(b)

Next == Calls \/ RecorderStep \/ SeeProgress \/ TaskStep \/ QueueStep \/ Restart

\* A task goes on once it has the gate: what it waits for is limited by a deadline.
Fairness == WF_vars(TaskStep)

Spec == Init /\ [][Next]_vars /\ Fairness
-----------------------------------------------------------------------------
RecordingTypeOK ==
    /\ rec \in [Recordings -> [status : Statuses, binary : Binaries \cup {None},
                               analyzed : BOOLEAN,
                               ghidra : {"pending", "saving", "saved", "retry"}]]
    /\ file \in [Recordings -> {"none", "journal", "trace"}]
    /\ recorder \in [Recordings -> {"none", "launched", "attached", "capturing",
                                    "complete", "broken"}]
    /\ orphans \subseteq Recordings /\ sessions \subseteq Recordings
    /\ inGhidra \subseteq Recordings
    /\ task \in Tasks
    /\ paused \subseteq Binaries /\ open \subseteq Binaries /\ lost \subseteq Binaries
    /\ restarts \in 0 .. MaxRestarts /\ acts \in 0 .. MaxActs

\* While a recording is captured, and imported by the handler that captured it, the queue
\* of its binary is still: it is paused, no request is open or unknown, and no phase of
\* recovery runs on it.  An import that `recover` takes up later is not meant: it neither
\* pauses the binary nor looks for requests.
QuietCapture ==
    \A r \in ActiveOnes : rec[r].status # "importing" \/ task.does = "record" =>
        /\ Of(r) \in paused \ (open \cup lost)
        /\ ~(task.does = "phase" /\ task.for = Of(r))

\* "permits one active recorder per workspace": a second one runs only if the first one
\* lost its server.
OneRecorder ==
    /\ \A r, q \in ActiveOnes : r = q
    /\ \A r, q \in Recordings : Alive(r) /\ Alive(q) /\ r # q => r \in orphans \/ q \in orphans

\* What is reported of a recording is there: a ready one is imported, one that is saved
\* is in the Ghidra project.
ReportsAreTrue ==
    \A r \in Recordings :
        /\ rec[r].status = "ready" => r \in sessions
        /\ rec[r].ghidra = "saved" => r \in inGhidra \cap sessions
        /\ rec[r].ghidra = "saving" => task.for = r

\* A recording that a task takes care of comes to an end, whatever the recorder does.
RecordingEnds ==
    \A r \in Recordings :
        rec[r].status \in Active /\ task.does \in {"record", "recover"} /\ task.for = r
            /\ task.at # "accepted" ~> rec[r].status \notin Active
=============================================================================
