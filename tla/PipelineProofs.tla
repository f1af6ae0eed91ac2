---------------------------- MODULE PipelineProofs ----------------------------
(***************************************************************************)
(* Invariants of the job queue for every binary, call graph, number of     *)
(* workers, runs and batches, and the implementation of the evidence lock. *)
(* The first part is about the queue alone (Spec of Pipeline), the second  *)
(* about the queue together with the console's batches (BatchSpec).        *)
(***************************************************************************)
EXTENDS Batch, CallGraphProofs, TLAPS

\* A new run may start with the first stage of a function, whatever is configured.
LEMMA FirstStagesAreStages == FirstStages \subseteq Stages
BY DEF FirstStages, Stages

\* Starting a run queues jobs and makes a run the scope.
LEMMA StartRunTypes ==
    ASSUME TypeOK, NEW r \in Runs, NEW S \in SUBSET Functions, NEW stage \in Stages,
           NEW pinning \in BOOLEAN, StartRun(r, S, stage, pinning)
    PROVE  /\ status' \in [Jobs -> Statuses]
           /\ pinned' \subseteq Jobs
           /\ activeRun' \in Runs \cup {None}
<1>1. {<<f, stage, r>> : f \in S} \subseteq Jobs
    BY DEF Jobs
<1> QED BY <1>1 DEF StartRun, TypeOK, Statuses

\* New calls are between functions, and so are the barriers they make.
LEMMA AddCallsTypes ==
    ASSUME TypeOK, AddCalls
    PROVE  edges' \subseteq Functions \X Functions /\ below' \subseteq Functions \X Functions
<1>1. CASE UNCHANGED graph
    BY <1>1 DEF graph, TypeOK
<1>2. CASE ~UNCHANGED graph
  <2>1. PICK calls \in SUBSET Observed : edges' = edges \cup calls
      BY <1>2 DEF AddCalls
  <2>2. below' = Downstream(Functions, edges')
      BY <1>2 DEF AddCalls
  <2> QED BY <2>1, <2>2, PipelineAssumption DEF TypeOK, Downstream
<1> QED BY <1>1, <1>2

\* Every step of the queue keeps the types.
LEMMA TypeStep == TypeOK /\ [Next]_vars => TypeOK'
<1> SUFFICES ASSUME TypeOK, [Next]_vars PROVE TypeOK'
    OBVIOUS
<1> USE PipelineAssumption, NoneAssumption
<1>1. ASSUME NEW w \in Workers, Claim(w) PROVE TypeOK'
    BY <1>1 DEF Claim, TypeOK, Statuses, graph, bounded
<1>2. ASSUME NEW w \in Workers, Send(w) PROVE TypeOK'
    BY <1>2 DEF Send, TypeOK, graph, bounded
<1>3. ASSUME NEW w \in Workers, Complete(w) PROVE TypeOK'
    BY <1>3 DEF Complete, Release, TypeOK, Statuses, graph, bounded
<1>4. ASSUME NEW w \in Workers, Fail(w) PROVE TypeOK'
    BY <1>4 DEF Fail, Release, TypeOK, Statuses, graph, bounded
<1>5. ASSUME NEW w \in Workers, OutcomeNotSaved(w) PROVE TypeOK'
    BY <1>5 DEF OutcomeNotSaved, Release, TypeOK, graph
<1>6. ASSUME NEW j \in Jobs, BackoffElapses(j) PROVE TypeOK'
    BY <1>6 DEF BackoffElapses, TypeOK, graph, bounded
<1>7. CASE Resume
  <2>1. status' \in [Jobs -> Statuses]
      BY <1>7 DEF Resume, Prepare, TypeOK, Statuses
  <2>2. reason' \in [Functions -> Reasons]
      BY <1>7 DEF Resume, Prepare, TypeOK, Reasons
  <2> QED BY <1>7, <2>1, <2>2 DEF Resume, TypeOK, graph, bounded
<1>8. CASE Pause
    BY <1>8 DEF Pause, TypeOK, graph, bounded
<1>9. CASE AllRuns
    BY <1>9 DEF AllRuns, TypeOK, graph, bounded
<1>18. CASE ScopeAgain
    BY <1>18 DEF ScopeAgain, TypeOK, Jobs, graph, bounded
<1>10. CASE Retry
    BY <1>10 DEF Retry, TypeOK, Statuses, graph, bounded
<1>11. CASE Reanalyze
  <2>1. PICK r \in Runs, S \in SUBSET Functions, stage \in Stages, pinning \in BOOLEAN :
            StartRun(r, S, stage, pinning)
      BY <1>11, FirstStagesAreStages DEF Reanalyze
  <2>2. /\ status' \in [Jobs -> Statuses]
        /\ pinned' \subseteq Jobs
        /\ activeRun' \in Runs \cup {None}
      BY <2>1, StartRunTypes
  <2> QED BY <2>2, <1>11 DEF Reanalyze, TypeOK, graph, bounded
<1>12. CASE AcquireWriter
    BY <1>12 DEF AcquireWriter, TypeOK, graph, bounded
<1>13. CASE FollowUp
  <2>1. PICK r \in Runs, S \in SUBSET Functions : StartRun(r, S, "map", TRUE)
      BY <1>13 DEF FollowUp
  <2>2. /\ status' \in [Jobs -> Statuses]
        /\ pinned' \subseteq Jobs
        /\ activeRun' \in Runs \cup {None}
      BY <2>1, StartRunTypes DEF Stages
  <2> QED BY <2>2, <1>13 DEF FollowUp, TypeOK, graph, bounded
<1>14. CASE ReleaseWriter
    BY <1>14 DEF ReleaseWriter, TypeOK, graph, bounded
<1>15. CASE ImportObservedCalls
    BY <1>15, AddCallsTypes DEF ImportObservedCalls, TypeOK, bounded
<1>19. CASE Refresh
  <2>1. status' \in [Jobs -> Statuses]
      BY <1>19 DEF Refresh, TypeOK, Statuses
  <2>2. reason' \in [Functions -> Reasons]
      BY <1>19 DEF Refresh, Reasons
  <2> QED BY <1>19, <2>1, <2>2, AddCallsTypes DEF Refresh, TypeOK, bounded
<1>16. CASE Restart
  <2>1. paused' \in BOOLEAN
      BY <1>16, Zenon DEF Restart, TypeOK
  <2>2. lost' \subseteq Jobs
      BY <1>16 DEF Restart, TypeOK
  <2>3. status' \in [Jobs -> Statuses]
      BY <1>16 DEF Restart, TypeOK, Statuses
  <2>4. holds' \in [Workers -> Jobs \cup {None}] /\ sent' = {} /\ writer' = FALSE
      BY <1>16 DEF Restart
  <2>5. restarts' \in Nat
      BY <1>16 DEF Restart, TypeOK
  <2>6. UNCHANGED <<attempts, waiting, pinned, activeRun, reason, edges, below,
                    saveErrors>>
      BY <1>16 DEF Restart, graph
  <2> QED BY <2>1, <2>2, <2>3, <2>4, <2>5, <2>6 DEF TypeOK
<1>17. CASE UNCHANGED vars
    BY <1>17 DEF vars, TypeOK, graph, bounded
<1> QED BY <1>1, <1>2, <1>3, <1>4, <1>5, <1>6, <1>7, <1>8, <1>9, <1>10, <1>11,
           <1>12, <1>13, <1>14, <1>15, <1>16, <1>17, <1>18, <1>19
        DEF Next, WorkerStep, OperatorStep, WriterStep

\* The variables keep their types in every reachable state.
THEOREM TypeCorrect == Spec => []TypeOK
<1>1. ASSUME Init PROVE TypeOK
  <2>1. below \subseteq Functions \X Functions
      BY <1>1 DEF Init, Downstream
  <2>2. status \in [Jobs -> Statuses]
      BY <1>1 DEF Init, Statuses
  <2>3. /\ attempts \in [Jobs -> Nat]
        /\ holds \in [Workers -> Jobs \cup {None}]
        /\ edges \subseteq Functions \X Functions
      BY <1>1, PipelineAssumption DEF Init
  <2>4. reason \in [Functions -> Reasons]
      BY <1>1 DEF Init, Reasons
  <2> QED BY <1>1, <2>1, <2>2, <2>3, <2>4 DEF Init, TypeOK
<1>2. TypeOK /\ [Next]_vars => TypeOK'
    BY TypeStep
<1> QED BY <1>1, <1>2, PTL DEF Spec

-----------------------------------------------------------------------------
(***************************************************************************)
(* The safety invariants hold together: a held job is running, so it is    *)
(* neither lost nor claimed again; the writer enters when nothing is       *)
(* active, so no worker holds a job then.                                  *)
(***************************************************************************)
Safe == OneWorkerPerJob /\ RunningIsHeld /\ LostIsHeldBack /\ WriterAlone

\* A step that neither gives a worker a job, nor takes one away, nor opens a request.
LEMMA QuietStep ==
    ASSUME TypeOK, Safe, UNCHANGED <<holds, saveErrors>>, writer' => writer,
           \A j \in Jobs : status[j] = "running" <=> status'[j] = "running",
           \A j \in Jobs : status'[j] \in Active => status[j] \in Active,
           lost' \subseteq lost, \A j \in lost' : status'[j] = status[j]
    PROVE  Safe'
<1>1. OneWorkerPerJob'
    BY DEF Safe, OneWorkerPerJob, TypeOK
<1>2. RunningIsHeld'
    BY DEF Safe, RunningIsHeld
<1>3. LostIsHeldBack'
    BY DEF Safe, LostIsHeldBack, TypeOK
<1>4. WriterAlone'
    BY DEF Safe, WriterAlone
<1> QED BY <1>1, <1>2, <1>3, <1>4 DEF Safe

\* A worker that finishes or gives up its job leaves every other job to its worker.
LEMMA ReleaseStep ==
    ASSUME TypeOK, Safe, NEW w \in Workers, holds[w] # None, Release(w),
           UNCHANGED writer,
           \A j \in Jobs \ {holds[w]} : status[j] = "running" <=> status'[j] = "running",
           \A j \in Jobs : status'[j] \in Active => status[j] \in Active,
           saveErrors' = 0 => saveErrors = 0 /\ status'[holds[w]] # "running",
           lost' \subseteq lost \cup {holds[w]}, holds[w] \in lost' => status'[holds[w]] = "running",
           \A j \in lost : status'[j] = status[j]
    PROVE  Safe'
<1>1. /\ holds' = [holds EXCEPT ![w] = None]
      /\ holds[w] \in Jobs
      /\ \A v \in Workers : holds'[v] # None => v # w /\ holds'[v] = holds[v]
    BY DEF Release, TypeOK
<1>2. \A v \in Workers \ {w} : holds[v] # holds[w]
    BY DEF Safe, OneWorkerPerJob
<1>3. OneWorkerPerJob'
    BY <1>1, <1>2 DEF Safe, OneWorkerPerJob, TypeOK
<1>4. RunningIsHeld'
    BY <1>1 DEF Safe, RunningIsHeld, TypeOK
<1>5. LostIsHeldBack'
    BY <1>1, <1>2, NoneAssumption DEF Safe, LostIsHeldBack, TypeOK
<1>6. WriterAlone'
    BY <1>1 DEF Safe, WriterAlone, TypeOK
<1> QED BY <1>3, <1>4, <1>5, <1>6 DEF Safe

\* What a worker's answer does to its job, and to a stage that it queues.
LEMMA CompleteStatus ==
    ASSUME TypeOK, Safe, NEW w \in Workers, Complete(w)
    PROVE  /\ holds[w] \in Jobs /\ status[holds[w]] = "running" /\ holds[w] \notin lost
           /\ \E stage \in NextStages(holds[w][2]) : \A j \in Jobs :
                 status'[j] = IF j = holds[w] THEN "completed"
                              ELSE IF /\ j = <<holds[w][1], stage, holds[w][3]>>
                                      /\ status[j] = "absent"
                              THEN "queued" ELSE status[j]
<1>1. holds[w] \in Jobs /\ status[holds[w]] = "running"
    BY NoneAssumption DEF Complete, TypeOK, Safe, OneWorkerPerJob
<1>2. Open(holds[w]) /\ holds[w] \notin lost
    BY <1>1 DEF Open, Safe, LostIsHeldBack
<1> QED BY <1>1, <1>2 DEF Complete

\* What an error does to the job of its worker.
LEMMA FailStatus ==
    ASSUME TypeOK, Safe, NEW w \in Workers, Fail(w)
    PROVE  /\ holds[w] \in Jobs /\ status[holds[w]] = "running" /\ holds[w] \notin lost
           /\ \A j \in Jobs : /\ j = holds[w] => status'[j] \in {"queued", "failed"}
                              /\ j # holds[w] => status'[j] = status[j]
<1>1. holds[w] \in Jobs /\ status[holds[w]] = "running"
    BY DEF Fail, TypeOK, Safe, OneWorkerPerJob
<1>2. Open(holds[w]) /\ holds[w] \notin lost
    BY <1>1 DEF Open, Safe, LostIsHeldBack, Active
<1> QED BY <1>1, <1>2 DEF Fail, TypeOK

\* Preparation queues jobs that did not exist, some of them for queued jobs it removes.
LEMMA PrepareStatus ==
    ASSUME TypeOK, Prepare, NEW j \in Jobs
    PROVE  \/ status'[j] = status[j]
           \/ status[j] = "queued" /\ status'[j] = "absent"
           \/ /\ Decisions /\ status[j] = "absent" /\ status'[j] = "queued"
              /\ \/ j \in Unskipped
                 \/ \E k \in Untouched : j = <<k[1], "preprocess", k[3]>>
<1>1. CASE ~Decisions
    BY <1>1 DEF Prepare
<1>2. CASE Decisions
  <2>1. \A k \in Untouched : k \in Jobs /\ status[k] = "queued"
      BY DEF Untouched
  <2>2. \A k \in Unskipped : k \in Jobs => status[k] = "absent"
      BY DEF Unskipped
  <2>3. \A k \in Untouched : status[<<k[1], "preprocess", k[3]>>] = "absent"
      BY DEF Untouched
  <2>4. status'[j] = IF j \in Untouched THEN "absent"
                     ELSE IF j \in Unskipped \cup {<<k[1], "preprocess", k[3]>> : k \in Untouched}
                          THEN "queued" ELSE status[j]
      BY <1>2 DEF Prepare
  <2> QED BY <1>2, <2>1, <2>2, <2>3, <2>4
<1> QED BY <1>1, <1>2

\* A retry queues the failed and uncertain jobs and nothing else.
LEMMA RetryStatus ==
    ASSUME TypeOK, Retry
    PROVE  /\ \A j \in Jobs :
                 \/ status'[j] = status[j] /\ status[j] \notin {"failed", "uncertain"}
                 \/ status[j] \in {"failed", "uncertain"} /\ status'[j] = "queued"
           /\ lost' = {j \in lost : status[j] \notin {"failed", "uncertain"}}
<1>1. \A j \in Jobs : \/ status'[j] = status[j] /\ status[j] \notin {"failed", "uncertain"}
                      \/ status[j] \in {"failed", "uncertain"} /\ status'[j] = "queued"
    BY DEF Retry
<1> QED BY <1>1 DEF Retry, TypeOK

\* A new run only queues jobs, in a run that had none.
LEMMA StartRunStatus ==
    ASSUME TypeOK, NEW r \in Runs, NEW S \in SUBSET Functions, NEW stage \in Stages,
           NEW pinning \in BOOLEAN, StartRun(r, S, stage, pinning)
    PROVE  /\ Fresh(r)
           /\ \A j \in Jobs : \/ status'[j] = status[j]
                              \/ j[3] = r /\ status[j] = "absent" /\ status'[j] = "queued"
<1>1. Fresh(r)
    BY DEF StartRun
<1>2. \A f \in S : <<f, stage, r>>[3] = r
    OBVIOUS
<1>3. \A j \in {<<f, stage, r>> : f \in S} : j[3] = r /\ (j \in Jobs => status[j] = "absent")
    BY <1>1, <1>2 DEF Fresh
<1> QED BY <1>1, <1>3 DEF StartRun

\* A refresh takes queued jobs out of the queue and does nothing else to jobs.
LEMMA RefreshStatus ==
    ASSUME TypeOK, Refresh, NEW j \in Jobs
    PROVE  status'[j] = status[j] \/ (status[j] = "queued" /\ status'[j] = "dropped")
BY DEF Refresh, Dropped

\* Every step of the queue keeps the four invariants.
LEMMA SafeStep == TypeOK /\ Safe /\ [Next]_vars => Safe'
<1> SUFFICES ASSUME TypeOK, Safe, [Next]_vars PROVE Safe'
    OBVIOUS
<1> USE DEF Active
<1>1. ASSUME NEW w \in Workers, Claim(w) PROVE Safe'
  <2>1. PICK j \in Jobs : /\ Claimable(j)
                          /\ status' = [status EXCEPT ![j] = "running"]
                          /\ holds' = [holds EXCEPT ![w] = j]
      BY <1>1 DEF Claim
  <2>2. status[j] = "queued" /\ ~writer'
      BY <1>1, <2>1 DEF Claim, Claimable
  <2>3. \A v \in Workers : /\ v = w => holds'[v] = j
                           /\ v # w => holds'[v] = holds[v]
                           /\ holds[v] # j
    <3>1. \A v \in Workers : holds[v] # j
        BY <2>2, NoneAssumption DEF Safe, OneWorkerPerJob
    <3> QED BY <2>1, <3>1 DEF TypeOK
  <2>4. \A k \in Jobs : status'[k] = IF k = j THEN "running" ELSE status[k]
      BY <2>1 DEF TypeOK
  <2>5. OneWorkerPerJob'
    <3>1. ASSUME NEW v \in Workers, holds'[v] # None PROVE status'[holds'[v]] = "running"
        BY <2>3, <2>4, <3>1 DEF Safe, OneWorkerPerJob, TypeOK
    <3>2. ASSUME NEW v \in Workers, NEW u \in Workers, holds'[v] # None, holds'[u] = holds'[v]
          PROVE  u = v
        BY <2>3, <3>2 DEF Safe, OneWorkerPerJob
    <3> QED BY <3>1, <3>2 DEF OneWorkerPerJob
  <2>6. RunningIsHeld'
    <3>1. saveErrors' = saveErrors /\ holds[w] = None
        BY <1>1 DEF Claim, bounded
    <3>2. ASSUME saveErrors = 0, NEW k \in Jobs, status'[k] = "running"
          PROVE  \E v \in Workers : holds'[v] = k
      <4>1. CASE k = j
          BY <4>1, <2>3
      <4>2. CASE k # j
        <5>1. PICK v \in Workers : holds[v] = k
            BY <3>2, <4>2, <2>4 DEF Safe, RunningIsHeld
        <5>2. v # w
            BY <3>1, <5>1, NoneAssumption
        <5> QED BY <2>3, <5>1, <5>2
      <4> QED BY <4>1, <4>2
    <3> QED BY <3>1, <3>2 DEF RunningIsHeld
  <2>7. LostIsHeldBack'
      BY <1>1, <2>1, <2>2 DEF Safe, LostIsHeldBack, TypeOK, Claim
  <2> QED BY <2>2, <2>5, <2>6, <2>7 DEF Safe, WriterAlone
<1>2. ASSUME NEW w \in Workers, Send(w) PROVE Safe'
    BY <1>2, QuietStep DEF Send, bounded
<1>3. ASSUME NEW w \in Workers, Complete(w) PROVE Safe'
  <2>1. Release(w) /\ UNCHANGED <<writer, lost, saveErrors>>
      BY <1>3 DEF Complete, bounded
  <2>2. \A j \in lost : status'[j] = status[j]
      BY <1>3, CompleteStatus DEF Safe, LostIsHeldBack, TypeOK
  <2> QED BY <1>3, <2>1, <2>2, CompleteStatus, ReleaseStep, NoneAssumption
<1>4. ASSUME NEW w \in Workers, Fail(w) PROVE Safe'
  <2>1. Release(w) /\ UNCHANGED <<writer, lost, saveErrors>>
      BY <1>4 DEF Fail, bounded
  <2>2. \A j \in lost : status'[j] = status[j]
      BY <1>4, FailStatus DEF TypeOK
  <2> QED BY <1>4, <2>1, <2>2, FailStatus, ReleaseStep, NoneAssumption
<1>5. ASSUME NEW w \in Workers, OutcomeNotSaved(w) PROVE Safe'
  <2>1. holds[w] \in Jobs /\ holds[w] # None /\ status[holds[w]] = "running"
      BY <1>5 DEF OutcomeNotSaved, TypeOK, Safe, OneWorkerPerJob
  <2>2. saveErrors' # 0
      BY <1>5 DEF OutcomeNotSaved, TypeOK
  <2>3. lost' \subseteq lost \cup {holds[w]}
      BY <1>5 DEF OutcomeNotSaved
  <2>4. Release(w) /\ UNCHANGED <<writer, status>>
      BY <1>5 DEF OutcomeNotSaved
  <2> QED BY <2>1, <2>2, <2>3, <2>4, ReleaseStep
<1>6. ASSUME NEW j \in Jobs, BackoffElapses(j) PROVE Safe'
    BY <1>6, QuietStep DEF BackoffElapses, bounded
<1>7. CASE Resume
  <2>1. Prepare /\ UNCHANGED <<holds, saveErrors, writer, lost>>
      BY <1>7 DEF Resume, bounded
  <2>2. \A j \in lost : status'[j] = status[j]
      BY <2>1, PrepareStatus DEF Safe, LostIsHeldBack, TypeOK
  <2> QED BY <2>1, <2>2, PrepareStatus, QuietStep
<1>8. CASE Pause
    BY <1>8, QuietStep DEF Pause, bounded
<1>9. CASE AllRuns
    BY <1>9, QuietStep DEF AllRuns, bounded
<1>19. CASE ScopeAgain
    BY <1>19, QuietStep DEF ScopeAgain, bounded
<1>10. CASE Retry
  <2>1. UNCHANGED <<holds, saveErrors, writer>>
      BY <1>10 DEF Retry, bounded
  <2>2. \A j \in lost' : status'[j] = status[j]
      BY <1>10, RetryStatus DEF TypeOK
  <2> QED BY <1>10, <2>1, <2>2, RetryStatus, QuietStep
<1>11. ASSUME NEW r \in Runs, NEW S \in SUBSET Functions, NEW stage \in Stages,
              NEW pinning \in BOOLEAN, StartRun(r, S, stage, pinning),
              UNCHANGED <<holds, saveErrors, writer, lost>>
       PROVE  Safe'
  <2>1. \A j \in lost : status'[j] = status[j]
      BY <1>11, StartRunStatus DEF Safe, LostIsHeldBack, TypeOK
  <2> QED BY <1>11, <2>1, StartRunStatus, QuietStep
<1>12. CASE Reanalyze
  <2>1. UNCHANGED <<holds, saveErrors, writer, lost>>
      BY <1>12 DEF Reanalyze, bounded
  <2> QED BY <1>11, <1>12, <2>1, FirstStagesAreStages DEF Reanalyze
<1>13. CASE AcquireWriter
  <2>1. /\ \A j \in Jobs : status[j] \notin Active
        /\ UNCHANGED <<status, holds, saveErrors, lost>>
      BY <1>13 DEF AcquireWriter, Drained, bounded
  <2>2. \A w \in Workers : holds[w] = None
      BY <2>1 DEF Safe, OneWorkerPerJob, TypeOK
  <2> QED BY <2>1, <2>2 DEF Safe, OneWorkerPerJob, RunningIsHeld, LostIsHeldBack, WriterAlone
<1>14. CASE FollowUp
  <2>1. UNCHANGED <<holds, saveErrors, writer, lost>>
      BY <1>14 DEF FollowUp, bounded
  <2>2. {"map"} \subseteq Stages
      BY DEF Stages
  <2> QED BY <1>11, <1>14, <2>1, <2>2 DEF FollowUp
<1>15. CASE ReleaseWriter
    BY <1>15, QuietStep DEF ReleaseWriter, bounded
<1>16. CASE ImportObservedCalls
    BY <1>16, QuietStep DEF ImportObservedCalls, bounded
<1>20. CASE Refresh
  <2>1. UNCHANGED <<holds, saveErrors, writer, lost>>
      BY <1>20 DEF Refresh, bounded
  <2>2. \A j \in lost : status'[j] = status[j]
      BY <1>20, RefreshStatus DEF Safe, LostIsHeldBack, TypeOK
  <2> QED BY <1>20, <2>1, <2>2, RefreshStatus, QuietStep
<1>17. CASE Restart
  <2>1. \A j \in Jobs : status'[j] # "running"
      BY <1>17 DEF Restart
  <2>2. \A w \in Workers : holds'[w] = None
      BY <1>17 DEF Restart
  <2>3. ASSUME NEW j \in lost' PROVE j \in Jobs /\ status'[j] = "uncertain"
    <3>1. j \in lost \/ \E w \in sent : j = holds[w]
        BY <1>17, <2>3 DEF Restart
    <3>2. j \in Jobs /\ status[j] \in {"running", "uncertain"}
        BY <3>1 DEF TypeOK, Safe, LostIsHeldBack, OneWorkerPerJob
    <3> QED BY <1>17, <3>2 DEF Restart
  <2>4. LostIsHeldBack'
      BY <2>2, <2>3, NoneAssumption DEF LostIsHeldBack
  <2>5. writer' = FALSE
      BY <1>17 DEF Restart
  <2> QED BY <2>1, <2>2, <2>4, <2>5 DEF Safe, OneWorkerPerJob, RunningIsHeld, WriterAlone
<1>18. CASE UNCHANGED vars
    BY <1>18, QuietStep DEF vars, bounded
<1> QED BY <1>1, <1>2, <1>3, <1>4, <1>5, <1>6, <1>7, <1>8, <1>9, <1>10, <1>12,
           <1>13, <1>14, <1>15, <1>16, <1>17, <1>18, <1>19, <1>20
        DEF Next, WorkerStep, OperatorStep, WriterStep

\* The initial queue satisfies them.
LEMMA SafeInit == Init => Safe
BY DEF Init, Safe, OneWorkerPerJob, RunningIsHeld, LostIsHeldBack, WriterAlone

\* Types and the four invariants hold in every reachable state.
LEMMA SafeAlways == Spec => [](TypeOK /\ Safe)
<1>1. Init => Safe
    BY SafeInit
<1>2. TypeOK /\ Safe /\ [Next]_vars => Safe'
    BY SafeStep
<1> QED BY TypeCorrect, <1>1, <1>2, PTL DEF Spec

\* No outcome is ever saved for a job that has been handed out again.
THEOREM OneWorker == Spec => []OneWorkerPerJob
<1>1. TypeOK /\ Safe => OneWorkerPerJob
    BY DEF Safe
<1> QED BY SafeAlways, <1>1, PTL

\* Only an outcome that was not saved leaves a running job without a worker.
THEOREM RunningHeld == Spec => []RunningIsHeld
<1>1. TypeOK /\ Safe => RunningIsHeld
    BY DEF Safe
<1> QED BY SafeAlways, <1>1, PTL

\* A request of unknown outcome is repeated only when the operator asks.
THEOREM LostHeldBack == Spec => []LostIsHeldBack
<1>1. TypeOK /\ Safe => LostIsHeldBack
    BY DEF Safe
<1> QED BY SafeAlways, <1>1, PTL

\* The recovery writer never changes evidence under an open request.
THEOREM WriterIsAlone == Spec => []WriterAlone
<1>1. TypeOK /\ Safe => WriterAlone
    BY DEF Safe
<1> QED BY SafeAlways, <1>1, PTL

-----------------------------------------------------------------------------
(***************************************************************************)
(* What a step does to the requests: only Claim opens one, only the writer *)
(* takes the flag, and every other step leaves each request as it was or   *)
(* closes it.                                                              *)
(***************************************************************************)
\* A job becomes running, or a request becomes open, only by a claim.
LEMMA OnlyClaimOpens ==
    ASSUME TypeOK, Safe, [Next]_vars, ~\E w \in Workers : Claim(w), NEW j \in Jobs
    PROVE  /\ status'[j] = "running" => status[j] = "running"
           /\ status'[j] \in Active => status[j] \in Active
<1> USE DEF Active
<1>1. CASE \E w \in Workers : Send(w) \/ OutcomeNotSaved(w)
    BY <1>1 DEF Send, OutcomeNotSaved
<1>2. CASE \E w \in Workers : Complete(w)
    BY <1>2, CompleteStatus
<1>3. CASE \E w \in Workers : Fail(w)
    BY <1>3, FailStatus
<1>4. CASE Resume
    BY <1>4, PrepareStatus DEF Resume
<1>5. CASE Retry
    BY <1>5, RetryStatus
<1>6. CASE Reanalyze
    BY <1>6, FirstStagesAreStages, StartRunStatus DEF Reanalyze
<1>7. CASE FollowUp
    BY <1>7, StartRunStatus DEF FollowUp, Stages
<1>8. CASE Restart
    BY <1>8 DEF Restart
<1>9. CASE \/ \E k \in Jobs : BackoffElapses(k)
           \/ Pause \/ AllRuns \/ ScopeAgain \/ AcquireWriter \/ ReleaseWriter
           \/ ImportObservedCalls \/ UNCHANGED vars
    BY <1>9 DEF BackoffElapses, Pause, AllRuns, ScopeAgain, AcquireWriter, ReleaseWriter,
                ImportObservedCalls, vars
<1>10. CASE Refresh
    BY <1>10, RefreshStatus
<1> QED BY <1>1, <1>2, <1>3, <1>4, <1>5, <1>6, <1>7, <1>8, <1>9, <1>10
        DEF Next, WorkerStep, OperatorStep, WriterStep

\* Only the recovery writer sets its flag, and only when no request is open.
LEMMA OnlyAcquireWrites ==
    ASSUME [Next]_vars
    PROVE  writer' = writer \/ writer' = FALSE \/ AcquireWriter
BY DEF Next, vars, WorkerStep, OperatorStep, WriterStep, Claim, Send, Complete, Fail,
       OutcomeNotSaved, BackoffElapses, Resume, Pause, AllRuns, Retry, Reanalyze,
       ScopeAgain, FollowUp, ReleaseWriter, ImportObservedCalls, Refresh, Restart

\* Only the operator lets the binary go on, and that opens and closes no request.
LEMMA OnlyResumeUnpauses ==
    ASSUME TypeOK, [Next]_vars, paused' \notin {paused, TRUE}
    PROVE  Resume
BY DEF TypeOK, Next, vars, WorkerStep, OperatorStep, WriterStep, Claim, Send, Complete, Fail,
       OutcomeNotSaved, BackoffElapses, Pause, AllRuns, Retry, Reanalyze, ScopeAgain,
       AcquireWriter, FollowUp, ReleaseWriter, ImportObservedCalls, Refresh, Restart

\* A step of the queue is a step of the lock or leaves it alone: to give the flag back
\* closes no request and opens none.
LEMMA LockStep ==
    ASSUME TypeOK, Safe, [Next]_vars
    PROVE  [Lock!Next]_(Lock!vars)
<1> DEFINE open == {j \in Jobs : status[j] \in Active}
<1>1. ASSUME NEW w \in Workers, Claim(w) PROVE Lock!Enter
  <2>1. ~writer /\ ~paused /\ UNCHANGED <<writer, paused>>
      BY <1>1 DEF Claim
  <2>2. PICK k \in Jobs : status' = [status EXCEPT ![k] = "running"]
      BY <1>1 DEF Claim
  <2>3. open \subseteq open' /\ open' \subseteq Jobs
      BY <2>2 DEF TypeOK, Active
  <2> QED BY <2>1, <2>3 DEF Lock!Enter
<1>2. ASSUME ~\E w \in Workers : Claim(w), UNCHANGED writer, paused' \in {paused, TRUE}
      PROVE  Lock!Leave
  <2>1. open' \subseteq open
      BY <1>2, OnlyClaimOpens
  <2> QED BY <1>2, <2>1 DEF Lock!Leave
<1>3. CASE AcquireWriter
  <2>1. open = {} /\ open' = open
      BY <1>3 DEF AcquireWriter, Drained
  <2> QED BY <1>3, <2>1 DEF AcquireWriter, Lock!Next, Lock!Acquire
<1>4. ASSUME writer, writer' = FALSE, paused' \in {paused, TRUE} PROVE Lock!Release
  <2>1. open = {}
      BY <1>4 DEF Safe, WriterAlone
  <2>2. ~\E w \in Workers : Claim(w)
      BY <1>4 DEF Claim
  <2>3. open' = {}
      BY <2>1, <2>2, OnlyClaimOpens
  <2> QED BY <1>4, <2>1, <2>3 DEF Lock!Release
<1>5. CASE Resume
  <2>1. Prepare /\ UNCHANGED writer
      BY <1>5 DEF Resume
  <2>2. \A j \in Jobs : status'[j] \in Active <=> status[j] \in Active
      BY <2>1, PrepareStatus DEF Active
  <2>3. paused' \in BOOLEAN
      BY <1>5 DEF Resume, TypeOK
  <2> QED BY <2>1, <2>2, <2>3 DEF Lock!Next, Lock!Control
<1>6. CASE \E w \in Workers : Claim(w)
    BY <1>1, <1>6 DEF Lock!Next
<1>7. CASE ~Resume /\ ~\E w \in Workers : Claim(w)
  <2>1. paused' \in {paused, TRUE}
      BY <1>7, OnlyResumeUnpauses
  <2>2. CASE UNCHANGED writer
      BY <1>2, <1>7, <2>1, <2>2 DEF Lock!Next
  <2>3. CASE ~UNCHANGED writer
    <3>1. AcquireWriter \/ (writer /\ writer' = FALSE)
        BY <2>3, OnlyAcquireWrites DEF TypeOK
    <3> QED BY <1>3, <1>4, <2>1, <3>1 DEF Lock!Next
  <2> QED BY <2>2, <2>3
<1> QED BY <1>5, <1>6, <1>7

\* The queue starts with an open lock.
LEMMA LockInit == Init => Lock!Init
BY DEF Init, Lock!Init, Active

\* Requests and the recovery writer implement the evidence lock.
THEOREM QueueImplementsLock == Spec => LockSpec
<1>1. TypeOK /\ Safe /\ [Next]_vars => [Lock!Next]_(Lock!vars)
    BY LockStep
<1> QED BY <1>1, LockInit, SafeAlways, PTL DEF Spec, LockSpec, Lock!Spec

-----------------------------------------------------------------------------
(***************************************************************************)
(* The dependency barrier.  The stored component ids keep describing the   *)
(* stored edges, so READY's query is the relation of the document, and a   *)
(* job starts only by a claim.                                             *)
(***************************************************************************)
GraphStored == below = Downstream(Functions, edges)

\* Only an import and a refresh change the graph.
LEMMA OnlyAddCallsChanges ==
    ASSUME [Next]_vars
    PROVE  \/ UNCHANGED graph
           \/ ImportObservedCalls /\ AddCalls
           \/ Refresh /\ AddCalls
BY DEF Next, vars, WorkerStep, OperatorStep, WriterStep, Claim, Send, Complete, Fail,
       OutcomeNotSaved, BackoffElapses, Resume, Pause, AllRuns, ScopeAgain, Retry, Reanalyze,
       AcquireWriter, FollowUp, ReleaseWriter, ImportObservedCalls, Refresh, Restart

\* Whoever adds edges has the components rebuilt.
LEMMA GraphStep == GraphStored /\ [Next]_vars => GraphStored'
BY OnlyAddCallsChanges DEF AddCalls, GraphStored, graph

\* The stored components describe the stored edges in every reachable state.
LEMMA GraphAlways == Spec => []GraphStored
<1>1. Init => GraphStored
    BY DEF Init, GraphStored
<1> QED BY <1>1, GraphStep, PTL DEF Spec

\* Where no recording is published, the graph changes only when no request is open.
THEOREM GraphIsFixed ==
    ASSUME "publish" \notin Operator
    PROVE  Spec => GraphFixedForRequests
<1>1. ASSUME TypeOK, Safe, [Next]_vars, graph' # graph
      PROVE  \A j \in Jobs : status[j] \notin Active
    BY <1>1, OnlyAddCallsChanges DEF ImportObservedCalls, Refresh, Quiet, Safe, WriterAlone
<1>2. TypeOK /\ Safe /\ [Next]_vars
        => [graph' # graph => \A j \in Jobs : status[j] \notin Active]_vars
    BY <1>1
<1> QED BY <1>2, SafeAlways, PTL DEF Spec, GraphFixedForRequests

\* A job that starts was claimable.
LEMMA StartedIsClaimable ==
    ASSUME TypeOK, Safe, [Next]_vars, NEW j \in Started
    PROVE  j \in Jobs /\ Claimable(j)
<1>1. j \in Jobs /\ status[j] = "queued" /\ status'[j] = "running"
    BY DEF Started
<1>2. PICK w \in Workers : Claim(w)
    BY <1>1, OnlyClaimOpens
<1>3. PICK k \in Jobs : Claimable(k) /\ status' = [status EXCEPT ![k] = "running"]
    BY <1>2 DEF Claim
<1> QED BY <1>1, <1>3 DEF TypeOK

\* The functions that the call graph puts strictly below a job that starts have no
\* unfinished work in its run.
LEMMA StartedCalleesDone ==
    ASSUME TypeOK, Safe, GraphStored, [Next]_vars, NEW j \in Started, NEW k \in Jobs,
           k[3] = j[3], <<j[1], k[1]>> \in Required
    PROVE  status[k] \notin Unfinished
<1>1. <<j[1], k[1]>> \in below
    BY DownstreamIsStrictlyBelow DEF GraphStored, Required
<1>2. CalleesDone(j)
    BY StartedIsClaimable DEF Claimable, Ready
<1> QED BY <1>1, <1>2 DEF CalleesDone

\* No caller starts before the callees it requires, on every call graph.
THEOREM CalleesComeFirst == Spec => CalleesFirst
<1> DEFINE settled(j) == \A k \in Jobs :
        k[3] = j[3] /\ <<j[1], k[1]>> \in Required => status[k] \notin Unfinished
<1>1. TypeOK /\ Safe /\ GraphStored /\ [Next]_vars => \A j \in Started : settled(j)
    BY StartedCalleesDone
<1>2. TypeOK /\ Safe /\ GraphStored /\ [Next]_vars => [\A j \in Started : settled(j)]_vars
    BY <1>1
<1> QED BY <1>2, SafeAlways, GraphAlways, PTL DEF Spec, CalleesFirst

\* With decisions configured an interpretation is completed together with the
\* arrival of its verification, which nothing removes.
VerificationFollows ==
    Decisions => \A j \in Interpretations : status[j] = "completed"
                    => status[Verification(j)] # "absent"

\* Every step keeps it.
LEMMA VerifiedStep ==
    TypeOK /\ Safe /\ VerificationFollows /\ [Next]_vars => VerificationFollows'
<1> SUFFICES ASSUME TypeOK, Safe, VerificationFollows, [Next]_vars, Decisions, NEW j \in Jobs,
                    j[2] \in {"map", "escalate"}, status'[j] = "completed"
             PROVE  status'[Verification(j)] # "absent"
    BY DEF VerificationFollows, Interpretations
<1> DEFINE stage == IF j[2] = "map" THEN "verify_map" ELSE "verify_escalate"
           v == <<j[1], stage, j[3]>>
<1>0. Verification(j) = v
    BY DEF Verification
<1>1. v \in Jobs /\ v # j /\ v[2] # "map" /\ v[2] \notin {"preprocess", "propagate", "escalate"}
    BY DEF Jobs, Stages
<1>2. ASSUME NEW w \in Workers, Complete(w) PROVE status'[v] # "absent"
  <2>1. CASE j = holds[w]
    <3>1. NextStages(j[2]) = {stage}
        BY DEF NextStages
    <3>2. status'[v] = IF status[v] = "absent" THEN "queued" ELSE status[v]
        BY <1>1, <1>2, <2>1, <3>1, CompleteStatus
    <3> QED BY <3>2
  <2>2. CASE j # holds[w]
    <3>1. status[j] = "completed"
        BY <1>2, <2>2, CompleteStatus
    <3>2. status[v] # "absent"
        BY <1>0, <3>1 DEF VerificationFollows, Interpretations
    <3> QED BY <1>1, <1>2, <3>2, CompleteStatus
  <2> QED BY <2>1, <2>2
<1>3. ASSUME ~\E w \in Workers : Complete(w)
      PROVE  status[j] = "completed" /\ (status[v] # "absent" => status'[v] # "absent")
  <2>1. CASE \E w \in Workers : Claim(w)
      BY <1>1, <2>1 DEF Claim, TypeOK
  <2>2. CASE \E w \in Workers : Send(w) \/ OutcomeNotSaved(w)
      BY <2>2 DEF Send, OutcomeNotSaved
  <2>3. CASE \E w \in Workers : Fail(w)
      BY <1>1, <2>3, FailStatus
  <2>4. CASE Resume
    <3>1. Prepare
        BY <2>4 DEF Resume
    <3>2. status[v] = "queued" => status'[v] # "absent"
      <4>1. v \notin Untouched
          BY <1>1 DEF Untouched
      <4> QED BY <1>1, <3>1, <4>1 DEF Prepare
    <3> QED BY <1>1, <3>1, <3>2, PrepareStatus
  <2>5. CASE Retry
      BY <1>1, <2>5, RetryStatus
  <2>6. CASE Reanalyze
      BY <1>1, <2>6, FirstStagesAreStages, StartRunStatus DEF Reanalyze
  <2>7. CASE FollowUp
      BY <1>1, <2>7, StartRunStatus DEF FollowUp, Stages
  <2>8. CASE Restart
      BY <1>1, <2>8 DEF Restart
  <2>9. CASE \/ \E k \in Jobs : BackoffElapses(k)
             \/ Pause \/ AllRuns \/ ScopeAgain \/ AcquireWriter \/ ReleaseWriter
             \/ ImportObservedCalls \/ UNCHANGED vars
      BY <2>9 DEF BackoffElapses, Pause, AllRuns, ScopeAgain, AcquireWriter, ReleaseWriter,
                  ImportObservedCalls, vars
  <2>10. CASE Refresh
      BY <1>1, <2>10, RefreshStatus
  <2> QED BY <1>3, <2>1, <2>2, <2>3, <2>4, <2>5, <2>6, <2>7, <2>8, <2>9, <2>10
          DEF Next, WorkerStep, OperatorStep, WriterStep
<1>4. ASSUME ~\E w \in Workers : Complete(w) PROVE status'[v] # "absent"
  <2>1. j \in Interpretations
      BY DEF Interpretations
  <2>2. status[v] # "absent"
      BY <1>0, <1>3, <1>4, <2>1, Zenon DEF VerificationFollows
  <2> QED BY <1>3, <1>4, <2>2, Zenon
<1>5. status'[v] # "absent"
    BY <1>2, <1>4, Zenon
<1> QED BY <1>0, <1>5

\* No caller starts while an interpretation below it, an escalated one included, is
\* unverified, also after retries, restarts and new runs.
THEOREM VerificationComesFirst == Spec => VerifiedBeforeCallers
<1> DEFINE verified(j) == \A k \in Interpretations :
        k[3] = j[3] /\ <<j[1], k[1]>> \in Required /\ status[k] = "completed"
        => status[Verification(k)] \in {"completed", "dropped", "failed"}
<1>1. Init => VerificationFollows
    BY DEF Init, VerificationFollows, Interpretations
<1>2. TypeOK /\ Safe /\ VerificationFollows /\ [Next]_vars => VerificationFollows'
    BY VerifiedStep
<1>3. ASSUME TypeOK, Safe, GraphStored, VerificationFollows, [Next]_vars, Decisions,
             NEW j \in Started
      PROVE  verified(j)
  <2>1. SUFFICES ASSUME NEW k \in Interpretations, k[3] = j[3], <<j[1], k[1]>> \in Required,
                        status[k] = "completed"
                 PROVE  status[Verification(k)] \in {"completed", "dropped", "failed"}
      OBVIOUS
  <2> DEFINE v == Verification(k)
  <2>2. v \in Jobs /\ v[1] = k[1] /\ v[3] = j[3]
      BY <2>1 DEF Jobs, Stages, Interpretations, Verification
  <2>3. status[v] \notin Unfinished
      BY <1>3, <2>1, <2>2, StartedCalleesDone
  <2>4. status[v] # "absent"
      BY <1>3, <2>1 DEF VerificationFollows
  <2> QED BY <1>3, <2>2, <2>3, <2>4 DEF TypeOK, Statuses, Unfinished, Active
<1>4. TypeOK /\ Safe /\ GraphStored /\ VerificationFollows /\ [Next]_vars
        => [Decisions => \A j \in Started : verified(j)]_vars
    BY <1>3
<1> QED BY <1>1, <1>2, <1>4, SafeAlways, GraphAlways, PTL DEF Spec, VerifiedBeforeCallers

-----------------------------------------------------------------------------
(***************************************************************************)
(* Without a retry by the operator, no work appears below an open request. *)
(* The one source of jobs for functions that had none, preparation for     *)
(* functions of an older extraction, is exhausted before the first claim.  *)
(***************************************************************************)
Older == {f \in Functions : reason[f] = "older"}

SkippedWait ==
    Decisions /\ Older # {} => paused /\ \A j \in Jobs : status[j] \notin Active

\* The functions without a job keep the binary paused until they are prepared.
LEMMA SkippedStep ==
    TypeOK /\ Safe /\ SkippedWait /\ [Next]_vars => SkippedWait'
<1> SUFFICES ASSUME TypeOK, Safe, SkippedWait, [Next]_vars, Decisions, Older' # {}
             PROVE  paused' /\ \A j \in Jobs : status'[j] \notin Active
    BY DEF SkippedWait
<1>1. ~Resume /\ UNCHANGED Older
  <2>1. ~Resume
      BY DEF Resume, Prepare, Older
  <2>2. ~Refresh
      BY DEF Refresh, Older
  <2>3. UNCHANGED reason
      BY <2>1, <2>2 DEF Next, vars, WorkerStep, OperatorStep, WriterStep, Claim, Send,
         Complete, Fail, OutcomeNotSaved, BackoffElapses, Pause, AllRuns, ScopeAgain, Retry,
         Reanalyze, AcquireWriter, FollowUp, ReleaseWriter, ImportObservedCalls, Restart
  <2> QED BY <2>1, <2>3 DEF Older
<1>2. paused /\ \A j \in Jobs : status[j] \notin Active
    BY <1>1 DEF SkippedWait
<1>3. ~\E w \in Workers : Claim(w)
    BY <1>2 DEF Claim
<1>4. paused'
    BY <1>1, <1>2 DEF Next, vars, WorkerStep, OperatorStep, WriterStep, Claim, Send, Complete,
       Fail, OutcomeNotSaved, BackoffElapses, Pause, AllRuns, ScopeAgain, Retry, Reanalyze,
       AcquireWriter, FollowUp, ReleaseWriter, ImportObservedCalls, Refresh, Restart
<1> QED BY <1>2, <1>3, <1>4, OnlyClaimOpens

\* Every step but a retry keeps what an open request was told about its callees.
LEMMA SettledStep ==
    TypeOK /\ Safe /\ SkippedWait /\ CalleesStaySettled /\ [Next]_vars
        => CalleesStaySettled'
<1> SUFFICES ASSUME TypeOK, Safe, SkippedWait, CalleesStaySettled, [Next]_vars,
                    {"retry", "publish"} \cap Operator = {},
                    NEW j \in Jobs, status'[j] \in Active,
                    NEW k \in Jobs, k[3] = j[3], <<j[1], k[1]>> \in below'
             PROVE  status'[k] \notin Unfinished
    BY DEF CalleesStaySettled
<1> USE DEF Active, Unfinished
<1>1. CASE \E w \in Workers : Claim(w)
  <2>1. PICK i \in Jobs : Claimable(i) /\ status' = [status EXCEPT ![i] = "running"]
      BY <1>1 DEF Claim
  <2>2. below' = below
      BY <1>1 DEF Claim, graph
  <2>3. status[k] \notin Unfinished
    <3>1. CASE j = i
        BY <2>1, <2>2, <3>1 DEF Claimable, Ready, CalleesDone
    <3>2. CASE j # i
        BY <2>1, <2>2, <3>2 DEF CalleesStaySettled, TypeOK
    <3> QED BY <3>1, <3>2
  <2>4. k # i
      BY <2>1, <2>3 DEF Claimable
  <2> QED BY <2>1, <2>3, <2>4 DEF TypeOK
<1>2. CASE ~\E w \in Workers : Claim(w)
  <2>1. status[j] \in Active
      BY <1>2, OnlyClaimOpens
  <2>2. ~ImportObservedCalls /\ ~Refresh
      BY <2>1 DEF ImportObservedCalls, Refresh, Quiet, Safe, WriterAlone
  <2>3. below' = below
      BY <2>2, OnlyAddCallsChanges DEF graph
  <2>4. \A i \in Jobs : i[1] = k[1] /\ i[3] = k[3] => status[i] \notin Unfinished
      BY <2>1, <2>3 DEF CalleesStaySettled
  <2>5. CASE \E w \in Workers : Complete(w)
    <3>1. PICK w \in Workers : Complete(w)
        BY <2>5
    <3>2. holds[w] \in Jobs /\ status[holds[w]] = "running"
        BY <3>1, CompleteStatus
    <3>3. ~(holds[w][1] = k[1] /\ holds[w][3] = k[3])
        BY <2>4, <3>2
    <3>4. status'[k] = status[k]
        BY <3>1, <3>3, CompleteStatus
    <3> QED BY <2>4, <3>4
  <2>6. CASE \E w \in Workers : Fail(w)
      BY <2>4, <2>6, FailStatus
  <2>7. CASE Resume
    <3>1. Prepare
        BY <2>7 DEF Resume
    <3>2. Older = {} \/ ~Decisions
        BY <2>1 DEF SkippedWait
    <3>3. Decisions => k \notin Unskipped
        BY <3>2 DEF Unskipped, Older
    <3>4. ASSUME NEW i \in Untouched PROVE k # <<i[1], "preprocess", i[3]>>
        BY <2>4 DEF Untouched
    <3> QED BY <2>4, <3>1, <3>3, <3>4, PrepareStatus
  <2>8. CASE Reanalyze \/ FollowUp
    <3>1. PICK r \in Runs, S \in SUBSET Functions, stage \in Stages, pinning \in BOOLEAN :
            StartRun(r, S, stage, pinning)
        BY <2>8, FirstStagesAreStages DEF Reanalyze, FollowUp, Stages
    <3>2. j[3] # r
        BY <2>1, <3>1, StartRunStatus DEF Fresh
    <3> QED BY <2>4, <3>1, <3>2, StartRunStatus
  <2>9. CASE Restart
      BY <2>4, <2>9 DEF Restart
  <2>10. CASE \/ \E w \in Workers : Send(w) \/ OutcomeNotSaved(w)
              \/ \E i \in Jobs : BackoffElapses(i)
              \/ Pause \/ AllRuns \/ ScopeAgain \/ AcquireWriter \/ ReleaseWriter
              \/ UNCHANGED vars
      BY <2>4, <2>10 DEF Send, OutcomeNotSaved, BackoffElapses, Pause, AllRuns, ScopeAgain,
                         AcquireWriter, ReleaseWriter, vars
  <2> QED BY <1>2, <2>2, <2>5, <2>6, <2>7, <2>8, <2>9, <2>10
          DEF Next, WorkerStep, OperatorStep, WriterStep, Retry
<1> QED BY <1>1, <1>2

\* Nothing below an open request becomes unfinished again in its run.
THEOREM CalleesSettled == Spec => []CalleesStaySettled
<1>1. Init => SkippedWait /\ CalleesStaySettled
    BY DEF Init, SkippedWait, CalleesStaySettled, Active
<1> QED BY <1>1, SkippedStep, SettledStep, SafeAlways, PTL DEF Spec

-----------------------------------------------------------------------------
\* No job of the legacy propagate stage exists.
NoPropagation == \A j \in Jobs : j[2] = "propagate" => status[j] = "absent"

\* The pipeline itself never makes a job of that stage.
LEMMA PropagationStep ==
    ASSUME TypeOK, NoPropagation, [Next]_vars
    PROVE  NoPropagation'
<1> SUFFICES ASSUME NEW j \in Jobs, j[2] = "propagate" PROVE status'[j] = "absent"
    BY DEF NoPropagation
<1>1. status[j] = "absent" /\ status \in [Jobs -> Statuses]
    BY DEF NoPropagation, TypeOK
<1>2. CASE \E w \in Workers : Claim(w)
    BY <1>1, <1>2 DEF Claim, Claimable
<1>3. CASE \E w \in Workers : Send(w) \/ OutcomeNotSaved(w)
    BY <1>1, <1>3 DEF Send, OutcomeNotSaved
<1>4. ASSUME NEW w \in Workers, Complete(w) PROVE status'[j] = "absent"
    <2>1. "propagate" \notin NextStages(holds[w][2])
        BY NoneAssumption DEF NextStages, Stages
    <2> QED BY <1>1, <1>4, <2>1 DEF Complete, Open
<1>5. ASSUME NEW w \in Workers, Fail(w) PROVE status'[j] = "absent"
    BY <1>1, <1>5 DEF Fail, Open
<1>6. CASE (\E k \in Jobs : BackoffElapses(k)) \/ Pause \/ AllRuns \/ ScopeAgain
    BY <1>1, <1>6 DEF BackoffElapses, Pause, AllRuns, ScopeAgain
<1>7. CASE Resume
    <2>1. CASE Decisions
      <3> DEFINE new == Unskipped \cup {<<k[1], "preprocess", k[3]>> : k \in Untouched}
      <3>1. status'[j] = IF j \in Untouched THEN "absent"
                         ELSE IF j \in new THEN "queued" ELSE status[j]
          BY <1>7, <2>1 DEF Resume, Prepare
      <3>2. j \notin new
          BY DEF Unskipped
      <3> QED BY <1>1, <3>1, <3>2
    <2>2. CASE ~Decisions
        BY <1>1, <1>7, <2>2 DEF Resume, Prepare
    <2> QED BY <2>1, <2>2
<1>8. CASE Retry
    BY <1>1, <1>8 DEF Retry
<1>9. CASE Reanalyze
    BY <1>1, <1>9 DEF Reanalyze, StartRun, FirstStages
<1>10. CASE AcquireWriter \/ ReleaseWriter \/ ImportObservedCalls
    BY <1>1, <1>10 DEF AcquireWriter, ReleaseWriter, ImportObservedCalls
<1>11. CASE FollowUp
    BY <1>1, <1>11 DEF FollowUp, StartRun
<1>12. CASE Refresh
    BY <1>1, <1>12 DEF Refresh, Dropped
<1>13. CASE Restart
    BY <1>1, <1>13 DEF Restart
<1>14. CASE UNCHANGED vars
    BY <1>1, <1>14 DEF vars
<1> QED BY <1>2, <1>3, <1>4, <1>5, <1>6, <1>7, <1>8, <1>9, <1>10, <1>11, <1>12, <1>13, <1>14
        DEF Next, WorkerStep, OperatorStep, WriterStep

\* A finite call graph always has a lowest function among those with queued work, and
\* nothing but a backoff keeps its jobs from the workers.
LEMMA SomeJobIsReady ==
    ASSUME IsFiniteSet(Functions), TypeOK, GraphStored, NoPropagation
    PROVE  WaitsForTheClock
<1> SUFFICES ASSUME RunState = "Waiting"
             PROVE  \E j \in waiting : InScope(j) /\ status[j] = "queued" /\ Ready(j)
    BY DEF WaitsForTheClock
<1>1. /\ ~InState("running") /\ ~InState("batched") /\ ~InState("uncertain") /\ InState("queued")
      /\ \A j \in Jobs : ~Claimable(j)
    BY DEF RunState
<1>2. PICK j0 \in Jobs : InScope(j0) /\ status[j0] = "queued"
    BY <1>1 DEF InState
<1> DEFINE r == j0[3]
           S == {f \in Functions : \E j \in Jobs : j[1] = f /\ j[3] = r /\ status[j] = "queued"}
<1>3. \A j \in Jobs : j[3] = r => InScope(j)
    BY <1>2 DEF InScope
<1>4. \A j \in Jobs : j[3] = r => status[j] \notin Active
    BY <1>1, <1>3 DEF InState, Active
<1>5. PICK f \in S : \A g \in S : <<f, g>> \notin StrictlyBelow(Functions, edges)
  <2>1. S # {} /\ S \in SUBSET Functions
      BY <1>2 DEF Jobs
  <2> HIDE DEF S
  <2> QED BY <2>1, LowestFunction
<1>6. PICK j \in Jobs : j[1] = f /\ j[3] = r /\ status[j] = "queued"
    OBVIOUS
<1>7. CalleesDone(j)
  <2> SUFFICES ASSUME NEW k \in Jobs, k[3] = r, <<f, k[1]>> \in below PROVE status[k] \notin Unfinished
      BY <1>6 DEF CalleesDone
  <2>1. k[1] \in Functions
      BY DEF Jobs
  <2>2. <<f, k[1]>> \in StrictlyBelow(Functions, edges)
      BY DownstreamIsStrictlyBelow DEF GraphStored
  <2>3. k[1] \notin S
      BY <1>5, <2>2
  <2> QED BY <1>4, <2>1, <2>3 DEF Unfinished
<1>8. Ready(j)
    BY <1>6, <1>7 DEF Ready, NoPropagation
<1>9. InScope(j) /\ j \in waiting
    BY <1>1, <1>3, <1>6, <1>8 DEF Claimable
<1> QED BY <1>6, <1>8, <1>9

\* Without jobs of the propagate stage, which only an older version made, every wait ends
\* with a backoff, on every call graph and with any number of runs.
THEOREM WaitsAreExplained ==
    ASSUME IsFiniteSet(Functions), Propagating = {}
    PROVE  Spec => []WaitsForTheClock
<1>1. Init => NoPropagation
    BY DEF Init, NoPropagation, InitialJobs
<1>2. TypeOK /\ NoPropagation /\ [Next]_vars => NoPropagation'
    BY PropagationStep
<1>3. TypeOK /\ GraphStored /\ NoPropagation => WaitsForTheClock
    BY SomeJobIsReady
<1> QED BY <1>1, <1>2, <1>3, TypeCorrect, GraphAlways, PTL DEF Spec

-----------------------------------------------------------------------------
(***************************************************************************)
(* Batches.  The queue's own steps keep the batched jobs as they are, and  *)
(* the console's steps touch only the jobs of the batch at hand; so the    *)
(* invariants of the queue carry over to the composition.                  *)
(***************************************************************************)

CommandTypes ==
    /\ command.does \in {"serve", "console", "over", "submit", "upload", "post", "posted",
                         "collect"}
    /\ command.does \in {"submit", "upload", "post", "posted", "collect"}
        => command.batch \in Batches
    /\ command.left \in Nat

BatchTypes ==
    /\ CommandTypes
    /\ command = [does |-> command.does, batch |-> command.batch, left |-> command.left]
    /\ batchStatus \in [Batches -> BatchStatuses]
    /\ remote \subseteq Batches
    /\ batchOf \in [Jobs -> Batches \cup {None}]
    /\ manifest \in [Batches -> SUBSET Jobs]
    /\ accepted \in [Batches -> SUBSET Jobs]

\* Where a batch stands, by what the command at work on it has done.
CommandIsHere ==
    /\ \A b \in Batches : b \in remote <=> batchStatus[b] \in {"submitted", "collected"}
    /\ command.does = "submit" => batchStatus[command.batch] = "preparing"
    /\ command.does = "upload" => batchStatus[command.batch] = "uploading"
    /\ command.does \in {"post", "posted"} => batchStatus[command.batch] = "submitting"
    /\ command.does = "collect" => batchStatus[command.batch] = "submitted"

\* What is in the file of the batch being submitted is in the batch.
FileIsInBatch ==
    command.does \in {"submit", "upload", "post"} =>
        \A j \in manifest[command.batch] : status[j] = "batched" /\ batchOf[j] = command.batch

\* A job belongs to a batch that was recorded, and is batched until the provider has
\* been seen to have the batch.
BatchOwnsJobs ==
    \A j \in Jobs : \A b \in Batches : batchOf[j] = b =>
        /\ batchStatus[b] # "absent"
        /\ batchStatus[b] \in {"preparing", "uploading", "submitting"} => status[j] = "batched"

\* A batch that was never recorded has no file.
NoFileYet == \A b \in Batches : batchStatus[b] = "absent" => manifest[b] = {}

BatchSafe ==
    /\ CommandIsHere
    /\ FileIsInBatch
    /\ BatchOwnsJobs
    /\ NoFileYet
    /\ AcceptedIsAwaited
    /\ BatchedHasAWayOut

-----------------------------------------------------------------------------
\* The queue neither takes a job out of a batch nor puts one into it.
LEMMA BatchedUntouched ==
    ASSUME TypeOK, Safe, [Next]_vars, NEW j \in Jobs
    PROVE  status[j] = "batched" <=> status'[j] = "batched"
<1>1. CASE \E w \in Workers : Claim(w) \/ Send(w) \/ OutcomeNotSaved(w)
    BY <1>1 DEF Claim, Claimable, Send, OutcomeNotSaved, TypeOK
<1>2. CASE \E w \in Workers : Complete(w)
    BY <1>2, CompleteStatus
<1>3. CASE \E w \in Workers : Fail(w)
    BY <1>3, FailStatus
<1>4. CASE \E i \in Jobs : BackoffElapses(i)
    BY <1>4 DEF BackoffElapses
<1>5. CASE Resume
    BY <1>5, PrepareStatus DEF Resume
<1>6. CASE Pause \/ AllRuns \/ ScopeAgain \/ AcquireWriter \/ ReleaseWriter \/ ImportObservedCalls
    BY <1>6 DEF Pause, AllRuns, ScopeAgain, AcquireWriter, ReleaseWriter, ImportObservedCalls
<1>7. CASE Retry
    BY <1>7, RetryStatus
<1>8. CASE Reanalyze \/ FollowUp
  <2>1. PICK r \in Runs, S \in SUBSET Functions, stage \in Stages, pinning \in BOOLEAN :
            StartRun(r, S, stage, pinning)
    <3>1. CASE Reanalyze
        BY <3>1, FirstStagesAreStages DEF Reanalyze
    <3>2. CASE FollowUp
        BY <3>2 DEF FollowUp, Stages
    <3> QED BY <1>8, <3>1, <3>2
  <2> QED BY <2>1, StartRunStatus
<1>9. CASE Refresh
    BY <1>9, RefreshStatus
<1>10. CASE Restart
    BY <1>10 DEF Restart, TypeOK
<1>11. CASE UNCHANGED vars
    BY <1>11 DEF vars
<1> QED BY <1>1, <1>2, <1>3, <1>4, <1>5, <1>6, <1>7, <1>8, <1>9, <1>10, <1>11
        DEF Next, WorkerStep, OperatorStep, WriterStep

\* A step of the queue that leaves the batches alone keeps what holds of them.
LEMMA QueueKeepsBatches ==
    ASSUME TypeOK, Safe, [Next]_vars, BatchTypes, BatchSafe,
           UNCHANGED <<batchStatus, remote, batchOf, manifest, accepted>>,
           command' = command \/ command' \in {Doing("serve"), Doing("console")}
    PROVE  BatchTypes' /\ BatchSafe'
<1>1. \A j \in Jobs : status[j] = "batched" <=> status'[j] = "batched"
    BY BatchedUntouched
<1>2. CASE command' = command
    BY <1>1, <1>2 DEF BatchTypes, CommandTypes, BatchSafe, CommandIsHere, FileIsInBatch,
       BatchOwnsJobs, NoFileYet, AcceptedIsAwaited, BatchedHasAWayOut
<1>3. CASE command' \in {Doing("serve"), Doing("console")}
    BY <1>1, <1>3 DEF Doing, BatchTypes, CommandTypes, BatchSafe, CommandIsHere, FileIsInBatch,
       BatchOwnsJobs, NoFileYet, AcceptedIsAwaited, BatchedHasAWayOut
<1> QED BY <1>2, <1>3

\* A console step opens no request while the writer works, and touches no running job.
LEMMA ConsoleKeepsQueue ==
    ASSUME TypeOK, Safe, UNCHANGED <<holds, saveErrors, writer, lost>>,
           status' \in [Jobs -> Statuses],
           \A j \in Jobs : status[j] = "running" <=> status'[j] = "running",
           \A j \in lost : status'[j] = status[j],
           \A j \in Jobs : status'[j] \in Active => status[j] \in Active \/ ~writer
    PROVE  Safe'
<1>1. OneWorkerPerJob'
    BY DEF Safe, OneWorkerPerJob, TypeOK
<1>2. RunningIsHeld'
    BY DEF Safe, RunningIsHeld
<1>3. LostIsHeldBack'
    BY DEF Safe, LostIsHeldBack, TypeOK
<1>4. WriterAlone'
    BY DEF Safe, WriterAlone
<1> QED BY <1>1, <1>2, <1>3, <1>4 DEF Safe

All == TypeOK /\ Safe /\ BatchTypes /\ BatchSafe

\* A step of the console that leaves the queue as it is.
LEMMA QueueStays == TypeOK /\ Safe /\ UNCHANGED vars => TypeOK' /\ Safe'
BY TypeStep, SafeStep

LEMMA StartKeeps == ASSUME All, NEW b \in Batches, SubmitStart(b) PROVE All'
<1> USE DEF All, SubmitStart
<1>1. TypeOK'
    BY DEF TypeOK, graph, bounded
<1>2. Safe'
    BY ConsoleKeepsQueue DEF graph, bounded, TypeOK
<1>3. BatchTypes'
    BY BatchAssumption DEF BatchTypes, CommandTypes, BatchStatuses
<1>4. BatchSafe'
    BY DEF BatchTypes, CommandTypes, BatchSafe, CommandIsHere, FileIsInBatch, BatchOwnsJobs,
       NoFileYet, AcceptedIsAwaited, BatchedHasAWayOut
<1> QED BY <1>1, <1>2, <1>3, <1>4

LEMMA ClaimKeeps == ASSUME All, NEW b \in Batches, ClaimBatch(b) PROVE All'
<1> USE DEF All
<1>1. PICK j \in Jobs : /\ ClaimableInBatch(j)
                        /\ status' = [status EXCEPT ![j] = "batched"]
                        /\ attempts' = [attempts EXCEPT ![j] = @ + 1]
                        /\ batchOf' = [batchOf EXCEPT ![j] = b]
    BY DEF ClaimBatch
<1>2. status[j] = "queued" /\ ~writer
    BY <1>1 DEF ClaimableInBatch, Claimable, ClaimBatch
<1>3. j \notin lost
    BY <1>2 DEF Safe, LostIsHeldBack
<1>4. TypeOK'
    BY <1>1 DEF TypeOK, Statuses, ClaimBatch, graph, bounded
<1>5. Safe'
    BY <1>1, <1>2, <1>3, <1>4, ConsoleKeepsQueue DEF ClaimBatch, graph, bounded, TypeOK
<1>6. BatchTypes'
    BY <1>1 DEF BatchTypes, CommandTypes, ClaimBatch, Room
<1>7. BatchSafe'
  <2>1. command.batch = b /\ command' = [command EXCEPT !.left = @ - 1]
      BY DEF ClaimBatch
  <2>2. \A c \in Batches : j \notin accepted[c]
      BY <1>2 DEF BatchSafe, AcceptedIsAwaited
  <2>3. j \notin manifest[b]
      BY <1>2 DEF BatchSafe, FileIsInBatch, ClaimBatch
  <2>4. CommandIsHere' /\ NoFileYet'
      BY <2>1 DEF BatchTypes, BatchSafe, CommandIsHere, NoFileYet, ClaimBatch
  <2>5. FileIsInBatch'
      BY <1>1, <2>1, <2>3 DEF BatchTypes, TypeOK, BatchSafe, FileIsInBatch, ClaimBatch
  <2>6. BatchOwnsJobs'
      BY <1>1, <2>1 DEF BatchTypes, TypeOK, BatchSafe, CommandIsHere, BatchOwnsJobs, ClaimBatch
  <2>7. AcceptedIsAwaited'
      BY <1>1, <2>2 DEF BatchTypes, TypeOK, BatchSafe, AcceptedIsAwaited, ClaimBatch
  <2>8. BatchedHasAWayOut'
      BY <1>1, <2>1 DEF BatchTypes, TypeOK, BatchSafe, CommandIsHere, BatchedHasAWayOut, ClaimBatch
  <2> QED BY <2>4, <2>5, <2>6, <2>7, <2>8 DEF BatchSafe
<1> QED BY <1>4, <1>5, <1>6, <1>7

LEMMA PinKeeps == ASSUME All, NEW b \in Batches, PinInBatch(b) PROVE All'
<1> USE DEF All
<1>1. PICK j \in InBatch(b) \ manifest[b] :
          pinned' = pinned \cup {j} /\ manifest' = [manifest EXCEPT ![b] = @ \cup {j}]
    BY DEF PinInBatch
<1>2. j \in Jobs /\ status[j] = "batched" /\ batchOf[j] = b
    BY <1>1 DEF InBatch
<1>3. TypeOK'
    BY <1>1, <1>2 DEF TypeOK, PinInBatch, graph, bounded
<1>4. Safe'
    BY <1>3, ConsoleKeepsQueue DEF PinInBatch, graph, bounded, TypeOK
<1>5. BatchTypes'
    BY <1>1, <1>2 DEF BatchTypes, CommandTypes, PinInBatch
<1>6. BatchSafe'
    BY <1>1, <1>2 DEF BatchTypes, BatchSafe, CommandIsHere, FileIsInBatch, BatchOwnsJobs,
       NoFileYet, AcceptedIsAwaited, BatchedHasAWayOut, PinInBatch
<1> QED BY <1>3, <1>4, <1>5, <1>6

LEMMA RejectKeeps == ASSUME All, NEW b \in Batches, RejectFromBatch(b) PROVE All'
<1> USE DEF All
<1>1. PICK j \in InBatch(b) \ manifest[b] :
          /\ status' = [status EXCEPT ![j] =
                          IF attempts[j] < MaxAttempts THEN "queued" ELSE "failed"]
          /\ pinned' \in {pinned, pinned \cup {j}}
          /\ batchOf' = [batchOf EXCEPT ![j] = None]
    BY DEF RejectFromBatch, LeavesBatch
<1>2. j \in Jobs /\ status[j] = "batched" /\ batchOf[j] = b
    BY <1>1 DEF InBatch
<1>3. status'[j] \in {"queued", "failed"} /\ \A k \in Jobs \ {j} : status'[k] = status[k]
    BY <1>1, <1>2 DEF TypeOK
<1>4. j \notin lost
    BY <1>2 DEF Safe, LostIsHeldBack
<1>5. TypeOK'
    BY <1>1, <1>2, <1>3 DEF TypeOK, Statuses, RejectFromBatch, graph, bounded
<1>6. Safe'
    BY <1>2, <1>3, <1>4, <1>5, ConsoleKeepsQueue DEF Active, RejectFromBatch, graph, bounded, TypeOK
<1>7. BatchTypes'
    BY <1>1 DEF BatchTypes, CommandTypes, RejectFromBatch
<1>8. BatchSafe'
  <2>1. command.does = "submit" /\ command.batch = b
      BY DEF RejectFromBatch
  <2>2. \A c \in Batches : j \notin accepted[c]
      BY <1>2, <2>1 DEF BatchSafe, AcceptedIsAwaited, CommandIsHere
  <2>3. \A k \in Jobs \ {j} : batchOf'[k] = batchOf[k]
      BY <1>1 DEF BatchTypes
  <2>4. batchOf'[j] \notin Batches
      BY <1>1, <1>2, BatchAssumption DEF BatchTypes
  <2>5. CommandIsHere' /\ NoFileYet'
      BY DEF BatchSafe, CommandIsHere, NoFileYet, RejectFromBatch
  <2>6. FileIsInBatch'
      BY <1>1, <1>3, <2>1, <2>3 DEF BatchTypes, BatchSafe, FileIsInBatch, RejectFromBatch
  <2>7. BatchOwnsJobs'
      BY <1>3, <2>3, <2>4 DEF BatchSafe, BatchOwnsJobs, RejectFromBatch
  <2>8. AcceptedIsAwaited'
      BY <1>3, <2>2, <2>3 DEF BatchTypes, BatchSafe, AcceptedIsAwaited, RejectFromBatch
  <2>9. BatchedHasAWayOut'
      BY <1>3, <2>3 DEF BatchSafe, BatchedHasAWayOut, RejectFromBatch
  <2> QED BY <2>5, <2>6, <2>7, <2>8, <2>9 DEF BatchSafe
<1> QED BY <1>5, <1>6, <1>7, <1>8

LEMMA SealKeeps == ASSUME All, NEW b \in Batches, Seal(b) PROVE All'
<1> USE DEF All
<1>1. TypeOK'
    BY DEF TypeOK, Seal, graph, bounded
<1>2. Safe'
    BY <1>1, ConsoleKeepsQueue DEF Seal, graph, bounded, TypeOK
<1>3. CASE manifest[b] = {}
  <2>1. InBatch(b) = {} /\ command' = Doing("over")
        /\ batchStatus' = [batchStatus EXCEPT ![b] = "abandoned"]
      BY <1>3 DEF Seal
  <2>2. BatchTypes'
      BY <2>1 DEF BatchTypes, CommandTypes, BatchStatuses, Seal, Doing
  <2>3. BatchSafe'
      BY <2>1 DEF BatchTypes, BatchSafe, CommandIsHere, FileIsInBatch, BatchOwnsJobs, NoFileYet,
         AcceptedIsAwaited, BatchedHasAWayOut, InBatch, Seal, Doing
  <2> QED BY <1>1, <1>2, <2>2, <2>3
<1>4. CASE manifest[b] # {}
  <2>1. /\ command' = [does |-> "upload", batch |-> b, left |-> 0]
        /\ batchStatus' = [batchStatus EXCEPT ![b] = "uploading"]
      BY <1>4 DEF Seal
  <2>2. BatchTypes'
      BY <2>1 DEF BatchTypes, CommandTypes, BatchStatuses, Seal
  <2>3. BatchSafe'
      BY <2>1 DEF BatchTypes, BatchSafe, CommandIsHere, FileIsInBatch, BatchOwnsJobs, NoFileYet,
         AcceptedIsAwaited, BatchedHasAWayOut, Seal
  <2> QED BY <1>1, <1>2, <2>2, <2>3
<1> QED BY <1>3, <1>4

\* The steps that send the batch, and those that start and end the collection.
LEMMA SendKeeps ==
    ASSUME All, NEW b \in Batches,
           \/ Upload(b) \/ Post(b) \/ Submitted(b) \/ Attach(b)
           \/ CollectStart(b) \/ CollectEnd(b)
    PROVE  All'
<1> USE DEF All
<1>1. UNCHANGED vars
    BY DEF Upload, Post, Submitted, Attach, CollectStart, CollectEnd
<1>2. TypeOK' /\ Safe'
    BY <1>1, QueueStays
<1>3. UNCHANGED status
    BY <1>1 DEF vars
<1> USE <1>3 DEF BatchTypes, CommandTypes, BatchStatuses, BatchSafe, CommandIsHere, FileIsInBatch,
            BatchOwnsJobs, NoFileYet, AcceptedIsAwaited, BatchedHasAWayOut, Doing
<1>4. CASE Upload(b)
    BY <1>2, <1>4 DEF Upload
<1>5. CASE Post(b)
    BY <1>2, <1>5 DEF Post
<1>6. CASE Submitted(b)
    BY <1>2, <1>6 DEF Submitted
<1>7. CASE Attach(b)
    BY <1>2, <1>7 DEF Attach
<1>8. CASE CollectStart(b)
    BY <1>2, <1>8 DEF CollectStart
<1>9. CASE CollectEnd(b)
    BY <1>2, <1>9 DEF CollectEnd, AllCollected, InBatch
<1> QED BY <1>4, <1>5, <1>6, <1>7, <1>8, <1>9

LEMMA AbandonKeeps == ASSUME All, NEW b \in Batches, Abandon(b) PROVE All'
<1> USE DEF All
<1> DEFINE back == {j \in Jobs : batchOf[j] = b /\ status[j] \in Active}
<1>1. /\ Abandonable(b)
      /\ status' = [j \in Jobs |-> IF j \in back THEN "queued" ELSE status[j]]
      /\ attempts' = [j \in Jobs |-> IF j \in back /\ attempts[j] > 0
                                     THEN attempts[j] - 1 ELSE attempts[j]]
      /\ waiting' = waiting \ back
      /\ batchOf' = [j \in Jobs |-> IF j \in back THEN None ELSE batchOf[j]]
      /\ batchStatus' = [batchStatus EXCEPT ![b] = "abandoned"]
      /\ command' = Doing("over")
      /\ UNCHANGED <<pinned, holds, sent, paused, writer, activeRun, reason, edges, below, lost,
                     saveErrors, restarts, remote, manifest, accepted>>
    BY DEF Abandon, graph, bounded
<1>2. batchStatus[b] \in {"preparing", "uploading", "submitting"} /\ b \notin remote
    BY <1>1 DEF Abandonable
<1>3. \A j \in Jobs : batchOf[j] = b => status[j] = "batched"
    BY <1>2 DEF BatchSafe, BatchOwnsJobs
<1>4. \A j \in back : j \in Jobs /\ status[j] = "batched" /\ j \notin lost
    BY <1>3 DEF Safe, LostIsHeldBack
<1>5. TypeOK'
  <2>1. status' \in [Jobs -> Statuses] /\ attempts' \in [Jobs -> Nat]
      BY <1>1 DEF TypeOK, Statuses
  <2> QED BY <1>1, <2>1 DEF TypeOK
<1>6. Safe'
  <2>1. \A j \in Jobs : status[j] = "running" <=> status'[j] = "running"
      BY <1>1, <1>4
  <2>2. \A j \in lost : status'[j] = status[j]
      BY <1>1, <1>4 DEF TypeOK
  <2>3. \A j \in Jobs : status'[j] \in Active => status[j] \in Active
      BY <1>1 DEF Active
  <2> HIDE DEF back
  <2> QED BY <1>1, <1>5, <2>1, <2>2, <2>3, ConsoleKeepsQueue DEF TypeOK
<1>7. BatchTypes'
    BY <1>1 DEF BatchTypes, CommandTypes, BatchStatuses, Doing
<1>8. BatchSafe'
  <2>1. accepted[b] = {}
      BY <1>1, <1>2 DEF Abandonable, BatchSafe, AcceptedIsAwaited
  <2>2. \A j \in Jobs : \/ batchOf[j] # b /\ batchOf'[j] = batchOf[j] /\ status'[j] = status[j]
                        \/ batchOf[j] = b /\ batchOf'[j] \notin Batches /\ status'[j] = "queued"
      BY <1>1, <1>3, BatchAssumption DEF Active
  <2> HIDE DEF back
  <2>3. CommandIsHere' /\ FileIsInBatch' /\ NoFileYet'
      BY <1>1, <1>2 DEF BatchTypes, BatchSafe, CommandIsHere, FileIsInBatch, NoFileYet, Doing
  <2>4. BatchOwnsJobs'
      BY <1>1, <2>2 DEF BatchTypes, BatchSafe, BatchOwnsJobs
  <2>5. AcceptedIsAwaited'
      BY <1>1, <2>1, <2>2 DEF BatchTypes, BatchSafe, AcceptedIsAwaited
  <2>6. BatchedHasAWayOut'
      BY <1>1, <2>2 DEF BatchTypes, BatchSafe, BatchedHasAWayOut
  <2> QED BY <2>3, <2>4, <2>5, <2>6 DEF BatchSafe
<1> QED BY <1>5, <1>6, <1>7, <1>8

LEMMA CollectKeeps == ASSUME All, NEW b \in Batches, CollectJob(b) PROVE All'
<1> USE DEF All
<1>1. PICK j \in InBatch(b), outcome \in {"completed", "failed", "queued"} :
          /\ status' = [status EXCEPT ![j] = outcome]
          /\ waiting' = IF outcome = "queued" THEN waiting \cup {j} ELSE waiting
          /\ accepted' = [accepted EXCEPT ![b] = @ \ {j}]
    BY DEF CollectJob
<1>2. j \in Jobs /\ status[j] = "batched" /\ batchOf[j] = b
    BY <1>1 DEF InBatch
<1>3. status'[j] = outcome /\ \A k \in Jobs \ {j} : status'[k] = status[k]
    BY <1>1, <1>2 DEF TypeOK
<1>4. j \notin lost
    BY <1>2 DEF Safe, LostIsHeldBack
<1>5. TypeOK'
    BY <1>1, <1>2 DEF TypeOK, Statuses, CollectJob, graph, bounded
<1>6. Safe'
    BY <1>2, <1>3, <1>4, <1>5, ConsoleKeepsQueue DEF Active, CollectJob, graph, bounded, TypeOK
<1>7. BatchTypes'
    BY <1>1 DEF BatchTypes, CommandTypes, CollectJob
<1>8. BatchSafe'
  <2>1. command.does = "collect" /\ command.batch = b /\ batchStatus[b] = "submitted"
      BY DEF CollectJob, BatchSafe, CommandIsHere
  <2>2. \A c \in Batches : j \notin accepted'[c]
      BY <1>1, <1>2 DEF BatchTypes, BatchSafe, AcceptedIsAwaited
  <2>3. \A c \in Batches : accepted'[c] \subseteq accepted[c]
      BY <1>1 DEF BatchTypes
  <2>4. CommandIsHere' /\ NoFileYet' /\ FileIsInBatch'
      BY <2>1 DEF BatchSafe, CommandIsHere, NoFileYet, FileIsInBatch, CollectJob
  <2>5. BatchOwnsJobs'
      BY <1>2, <1>3, <2>1 DEF BatchSafe, BatchOwnsJobs, CollectJob
  <2>6. AcceptedIsAwaited'
      BY <1>3, <2>2, <2>3 DEF BatchTypes, BatchSafe, AcceptedIsAwaited, CollectJob
  <2>7. BatchedHasAWayOut'
      BY <1>3 DEF BatchSafe, BatchedHasAWayOut, CollectJob
  <2> QED BY <2>4, <2>5, <2>6, <2>7 DEF BatchSafe
<1> QED BY <1>5, <1>6, <1>7, <1>8

-----------------------------------------------------------------------------
\* What the server, time and a new process do is a step of the queue.
LEMMA QueueSteps ==
    ASSUME Serve \/ TimePasses \/ NewProcess
    PROVE  /\ [Next]_vars
           /\ UNCHANGED <<batchStatus, remote, batchOf, manifest, accepted>>
           /\ command' = command \/ command' \in {Doing("serve"), Doing("console")}
BY DEF Serve, TimePasses, NewProcess, Next, batchVars

LEMMA AllStep == All /\ [BatchNext]_allVars => All'
<1> SUFFICES ASSUME All, [BatchNext]_allVars PROVE All'
    OBVIOUS
<1>1. CASE Serve \/ TimePasses \/ NewProcess
    BY <1>1, QueueSteps, TypeStep, SafeStep, QueueKeepsBatches DEF All
<1>2. CASE CommandOver
  <2>1. TypeOK' /\ Safe'
      BY <1>2, QueueStays DEF CommandOver, All
  <2>2. BatchTypes' /\ BatchSafe'
      BY <1>2 DEF CommandOver, vars, All, Doing, BatchTypes, CommandTypes, BatchSafe, CommandIsHere,
         FileIsInBatch, BatchOwnsJobs, NoFileYet, AcceptedIsAwaited, BatchedHasAWayOut
  <2> QED BY <2>1, <2>2 DEF All
<1>3. ASSUME NEW b \in Batches, Submit(b) \/ Attach(b) \/ Abandon(b) \/ Collect(b)
      PROVE  All'
    BY <1>3, StartKeeps, ClaimKeeps, PinKeeps, RejectKeeps, SealKeeps, SendKeeps, AbandonKeeps,
       CollectKeeps DEF Submit, Collect
<1>4. CASE UNCHANGED allVars
  <2>1. TypeOK' /\ Safe'
      BY <1>4, QueueStays DEF allVars, All
  <2>2. BatchTypes' /\ BatchSafe'
      BY <1>4 DEF allVars, batchVars, vars, All, BatchTypes, CommandTypes, BatchSafe, CommandIsHere,
         FileIsInBatch, BatchOwnsJobs, NoFileYet, AcceptedIsAwaited, BatchedHasAWayOut
  <2> QED BY <2>1, <2>2 DEF All
<1> QED BY <1>1, <1>2, <1>3, <1>4 DEF BatchNext

LEMMA AllInit == BatchInit => All
<1> SUFFICES ASSUME BatchInit PROVE All
    OBVIOUS
<1>1. below \subseteq Functions \X Functions
    BY DEF BatchInit, Init, Downstream
<1>2. status \in [Jobs -> Statuses] /\ \A j \in Jobs : status[j] \in {"queued", "absent"}
    BY DEF BatchInit, Init, Statuses
<1>3. TypeOK
  <2>1. /\ attempts \in [Jobs -> Nat] /\ holds \in [Workers -> Jobs \cup {None}]
        /\ edges \subseteq Functions \X Functions
      BY PipelineAssumption DEF BatchInit, Init
  <2>2. reason \in [Functions -> Reasons]
      BY DEF BatchInit, Init, Reasons
  <2> QED BY <1>1, <1>2, <2>1, <2>2 DEF TypeOK, BatchInit, Init
<1>4. Safe
    BY SafeInit DEF BatchInit
<1>5. BatchTypes
    BY DEF BatchInit, BatchTypes, CommandTypes, BatchStatuses, Doing
<1>6. BatchSafe
    BY <1>2, BatchAssumption DEF BatchInit, BatchSafe, CommandIsHere, FileIsInBatch, BatchOwnsJobs,
       NoFileYet, AcceptedIsAwaited, BatchedHasAWayOut, Doing
<1> QED BY <1>3, <1>4, <1>5, <1>6 DEF All

\* The queue's invariants and the batches' hold together in every reachable state.
LEMMA AllAlways == BatchSpec => []All
BY AllInit, AllStep, PTL DEF BatchSpec

\* Whatever processes stop and whatever the server does between them, a request that the
\* provider accepted is waited for in its batch, and one whose outcome was lost is not
\* repeated unless the operator asks.
THEOREM NothingIsPaidTwice == BatchSpec => []PaidOnce
<1>1. All => PaidOnce
    BY DEF All, Safe, BatchSafe, PaidOnce
<1> QED BY <1>1, AllAlways, PTL

\* The batch of a batched job can always be collected, attached or abandoned.
THEOREM NoJobIsStranded == BatchSpec => []BatchedHasAWayOut
<1>1. All => BatchedHasAWayOut
    BY DEF All, BatchSafe
<1> QED BY <1>1, AllAlways, PTL

-----------------------------------------------------------------------------
LEMMA BatchGraphStep == GraphStored /\ [BatchNext]_allVars => GraphStored'
<1> SUFFICES ASSUME GraphStored, [BatchNext]_allVars PROVE GraphStored'
    OBVIOUS
<1>1. CASE Serve \/ TimePasses \/ NewProcess
    BY <1>1, QueueSteps, GraphStep
<1>2. CASE CommandOver \/ UNCHANGED allVars
    BY <1>2 DEF CommandOver, allVars, vars, graph, GraphStored
<1>3. ASSUME NEW b \in Batches, Submit(b) \/ Attach(b) \/ Abandon(b) \/ Collect(b)
      PROVE  UNCHANGED graph
    BY <1>3 DEF Submit, Collect, SubmitStart, ClaimBatch, PinInBatch, RejectFromBatch, Seal, Upload,
       Post, Submitted, Attach, Abandon, CollectStart, CollectJob, CollectEnd, vars
<1> QED BY <1>1, <1>2, <1>3 DEF BatchNext, graph, GraphStored

\* Of the console's steps only the claim for a batch starts a job.
LEMMA StartsInBatch ==
    ASSUME All, NEW b \in Batches, Submit(b) \/ Attach(b) \/ Abandon(b) \/ Collect(b),
           NEW j \in Jobs, status[j] = "queued", status'[j] \in {"running", "batched"}
    PROVE  Claimable(j)
<1> USE DEF All, TypeOK
<1>1. CASE ClaimBatch(b)
    BY <1>1 DEF ClaimBatch, ClaimableInBatch
<1>2. CASE RejectFromBatch(b)
    BY <1>2 DEF RejectFromBatch, InBatch
<1>3. CASE CollectJob(b)
    BY <1>3 DEF CollectJob, InBatch
<1>4. CASE Abandon(b)
    BY <1>4 DEF Abandon
<1>5. CASE SubmitStart(b) \/ PinInBatch(b) \/ Seal(b)
    BY <1>5 DEF SubmitStart, PinInBatch, Seal
<1>6. CASE Upload(b) \/ Post(b) \/ Submitted(b) \/ Attach(b) \/ CollectStart(b) \/ CollectEnd(b)
    BY <1>6 DEF Upload, Post, Submitted, Attach, CollectStart, CollectEnd, vars
<1> QED BY <1>1, <1>2, <1>3, <1>4, <1>5, <1>6 DEF Submit, Collect

\* With workers and batches side by side, a job starts only when nothing strictly below it
\* in its run is unfinished: the batch that holds a callee never holds its caller.
THEOREM CalleesBeforeBatchedCallers == BatchSpec => CalleesBeforeBatches
<1> DEFINE settled(j) == \A k \in Jobs :
               k[3] = j[3] /\ <<j[1], k[1]>> \in Required => status[k] \notin Unfinished
           starts == {j \in Jobs : status[j] = "queued" /\ status'[j] \in {"running", "batched"}}
<1>1. ASSUME All, GraphStored, [BatchNext]_allVars, NEW j \in starts PROVE settled(j)
  <2>1. CASE Serve \/ TimePasses \/ NewProcess
    <3>1. [Next]_vars
        BY <2>1, QueueSteps
    <3>2. j \in Started
        BY <1>1, <3>1, BatchedUntouched DEF Started, All
    <3> QED BY <1>1, <3>1, <3>2, StartedCalleesDone DEF All
  <2>2. CASE CommandOver \/ UNCHANGED allVars
      BY <1>1, <2>2 DEF CommandOver, allVars, vars
  <2>3. ASSUME NEW b \in Batches, Submit(b) \/ Attach(b) \/ Abandon(b) \/ Collect(b)
        PROVE  settled(j)
    <3>1. CalleesDone(j)
        BY <1>1, <2>3, StartsInBatch DEF Claimable, Ready
    <3>2. \A k \in Jobs : <<j[1], k[1]>> \in Required => <<j[1], k[1]>> \in below
        BY <1>1, DownstreamIsStrictlyBelow DEF GraphStored, Required
    <3> QED BY <3>1, <3>2 DEF CalleesDone
  <2> QED BY <1>1, <2>1, <2>2, <2>3 DEF BatchNext
<1>2. All /\ GraphStored /\ [BatchNext]_allVars =>
        [\A j \in {i \in Jobs : status[i] = "queued" /\ status'[i] \in {"running", "batched"}} :
            \A k \in Jobs : k[3] = j[3] /\ <<j[1], k[1]>> \in Required
                            => status[k] \notin Unfinished]_allVars
    BY <1>1
<1>3. BatchInit => GraphStored
    BY DEF BatchInit, Init, GraphStored
<1> QED BY <1>2, <1>3, AllAlways, BatchGraphStep, PTL DEF BatchSpec, CalleesBeforeBatches

-----------------------------------------------------------------------------
\* Of the console's steps only the claim for a batch opens the request of a queued job.
LEMMA OnlyBatchClaims ==
    ASSUME All, NEW b \in Batches, Submit(b) \/ Attach(b) \/ Abandon(b) \/ Collect(b),
           ~ClaimBatch(b), NEW j \in Jobs, status[j] = "queued"
    PROVE  status'[j] \notin Active
<1> USE DEF All, TypeOK, Active
<1>1. CASE RejectFromBatch(b)
    BY <1>1 DEF RejectFromBatch, InBatch
<1>2. CASE CollectJob(b)
    BY <1>2 DEF CollectJob, InBatch
<1>3. CASE Abandon(b)
    BY <1>3 DEF Abandon
<1>4. CASE SubmitStart(b) \/ PinInBatch(b) \/ Seal(b)
    BY <1>4 DEF SubmitStart, PinInBatch, Seal
<1>5. CASE Upload(b) \/ Post(b) \/ Submitted(b) \/ Attach(b) \/ CollectStart(b) \/ CollectEnd(b)
    BY <1>5 DEF Upload, Post, Submitted, Attach, CollectStart, CollectEnd, vars
<1> QED BY <1>1, <1>2, <1>3, <1>4, <1>5 DEF Submit, Collect

\* What a console step does to the jobs: only the claim for a batch opens a request, no
\* step adds work, and none touches the graph or the writer's flag.
LEMMA ConsoleStatus ==
    ASSUME All, NEW b \in Batches, Submit(b) \/ Attach(b) \/ Abandon(b) \/ Collect(b),
           NEW j \in Jobs
    PROVE  /\ UNCHANGED <<writer, graph, reason>>
           /\ status[j] = "absent" => status'[j] = "absent"
           /\ status'[j] \in Unfinished => status[j] \in Unfinished
           /\ status'[j] \in Active => status[j] \in Active \/ (Claimable(j) /\ ~writer)
<1> USE DEF All, TypeOK, Unfinished, Active
<1>1. UNCHANGED <<writer, graph, reason>>
    BY DEF Submit, Collect, SubmitStart, ClaimBatch, PinInBatch, RejectFromBatch, Seal, Upload,
       Post, Submitted, Attach, Abandon, CollectStart, CollectJob, CollectEnd, vars
<1>2. CASE ClaimBatch(b)
  <2>1. PICK i \in Jobs : ClaimableInBatch(i) /\ status' = [status EXCEPT ![i] = "batched"]
      BY <1>2 DEF ClaimBatch
  <2>2. ~writer
      BY <1>2 DEF ClaimBatch
  <2>3. CASE j = i
      BY <1>1, <2>1, <2>2, <2>3 DEF ClaimableInBatch, Claimable
  <2>4. CASE j # i
      BY <1>1, <2>1, <2>4
  <2> QED BY <2>3, <2>4
<1>3. CASE RejectFromBatch(b)
  <2>1. PICK i \in InBatch(b) : status' = [status EXCEPT ![i] =
                        IF attempts[i] < MaxAttempts THEN "queued" ELSE "failed"]
      BY <1>3 DEF RejectFromBatch
  <2>2. i \in Jobs /\ status[i] = "batched"
      BY DEF InBatch
  <2> QED BY <1>1, <2>1, <2>2
<1>4. CASE CollectJob(b)
  <2>1. PICK i \in InBatch(b), outcome \in {"completed", "failed", "queued"} :
            status' = [status EXCEPT ![i] = outcome]
      BY <1>4 DEF CollectJob
  <2>2. i \in Jobs /\ status[i] = "batched"
      BY DEF InBatch
  <2> QED BY <1>1, <2>1, <2>2
<1>5. CASE Abandon(b)
    BY <1>1, <1>5 DEF Abandon
<1>6. CASE SubmitStart(b) \/ PinInBatch(b) \/ Seal(b)
    BY <1>1, <1>6 DEF SubmitStart, PinInBatch, Seal
<1>7. CASE Upload(b) \/ Post(b) \/ Submitted(b) \/ Attach(b) \/ CollectStart(b) \/ CollectEnd(b)
    BY <1>1, <1>7 DEF Upload, Post, Submitted, Attach, CollectStart, CollectEnd, vars
<1> QED BY <1>2, <1>3, <1>4, <1>5, <1>6, <1>7 DEF Submit, Collect

\* The stored components describe the stored edges whatever the console does.
LEMMA BatchGraphAlways == BatchSpec => []GraphStored
<1>1. BatchInit => GraphStored
    BY DEF BatchInit, Init, GraphStored
<1> QED BY <1>1, BatchGraphStep, PTL DEF BatchSpec

\* The queue's own promises to its workers and to the recovery writer survive the console.
THEOREM QueueIsSafeUnderBatches ==
    BatchSpec => [](OneWorkerPerJob /\ RunningIsHeld /\ WriterAlone)
<1>1. All => OneWorkerPerJob /\ RunningIsHeld /\ WriterAlone
    BY DEF All, Safe
<1> QED BY <1>1, AllAlways, PTL

\* With batches too, requests and the recovery writer implement the evidence lock: a batch
\* enters it job by job, and leaves it when an operator or an outcome says so.
THEOREM BatchesImplementLock == BatchSpec => LockSpec
<1> DEFINE open == {j \in Jobs : status[j] \in Active}
<1>1. ASSUME All, [BatchNext]_allVars PROVE [Lock!Next]_(Lock!vars)
  <2>1. CASE Serve \/ TimePasses \/ NewProcess
      BY <1>1, <2>1, QueueSteps, LockStep DEF All
  <2>2. CASE CommandOver \/ UNCHANGED allVars
      BY <2>2 DEF CommandOver, allVars, vars, Lock!vars
  <2>3. ASSUME NEW b \in Batches, Submit(b) \/ Attach(b) \/ Abandon(b) \/ Collect(b)
        PROVE  Lock!Next
    <3>1. UNCHANGED writer
        BY <2>3 DEF Submit, Collect, SubmitStart, ClaimBatch, PinInBatch, RejectFromBatch, Seal,
           Upload, Post, Submitted, Attach, Abandon, CollectStart, CollectJob, CollectEnd, vars
    <3>2. CASE ClaimBatch(b)
      <4>1. ~writer /\ ~paused /\ UNCHANGED paused
          BY <3>2 DEF ClaimBatch
      <4>2. PICK i \in Jobs : status' = [status EXCEPT ![i] = "batched"]
          BY <3>2 DEF ClaimBatch
      <4>3. open \subseteq open' /\ open' \subseteq Jobs
          BY <1>1, <4>2 DEF All, TypeOK, Active
      <4> QED BY <3>1, <4>1, <4>3 DEF Lock!Next, Lock!Enter
    <3>3. CASE SubmitStart(b)
        BY <3>1, <3>3 DEF SubmitStart, Lock!Next, Lock!Control
    <3>4. CASE ~ClaimBatch(b) /\ ~SubmitStart(b)
      <4>1. open' \subseteq open
        <5> SUFFICES ASSUME NEW j \in Jobs, status'[j] \in Active PROVE status[j] \in Active
            OBVIOUS
        <5>1. status[j] # "queued"
            BY <1>1, <2>3, <3>4, OnlyBatchClaims DEF Active
        <5> QED BY <1>1, <2>3, <5>1, ConsoleStatus DEF Claimable
      <4>2. paused' \in {paused, TRUE}
          BY <2>3, <3>4 DEF Submit, Collect, PinInBatch, RejectFromBatch, Seal, Upload, Post,
             Submitted, Attach, Abandon, CollectStart, CollectJob, CollectEnd, vars
      <4> QED BY <3>1, <4>1, <4>2 DEF Lock!Next, Lock!Leave
    <3> QED BY <3>2, <3>3, <3>4
  <2> QED BY <1>1, <2>1, <2>2, <2>3 DEF BatchNext
<1>2. BatchInit => Lock!Init
    BY LockInit DEF BatchInit
<1>3. All /\ [BatchNext]_allVars => [Lock!Next]_(Lock!vars)
    BY <1>1
<1> QED BY <1>2, <1>3, AllAlways, PTL DEF BatchSpec, LockSpec, Lock!Spec

\* While the binary is paused nothing that reasons about its evidence begins: neither a request
\* of any run, by a worker or in a batch, nor the recovery writer.  What is open may only end.
NothingBegins ==
    paused => /\ \A j \in Jobs : status'[j] \in Active => status[j] \in Active
              /\ writer' => writer

LEMMA LockIsQuiet ==
    ASSUME [Lock!Next]_(Lock!vars)
    PROVE  NothingBegins
<1> DEFINE open == {j \in Jobs : status[j] \in Active}
<1> SUFFICES ASSUME paused PROVE open' \subseteq open /\ (writer' => writer)
    BY DEF NothingBegins
<1>1. CASE Lock!Enter \/ Lock!Acquire
    BY <1>1 DEF Lock!Enter, Lock!Acquire
<1>2. CASE Lock!Leave
    BY <1>2 DEF Lock!Leave
<1>3. CASE Lock!Release
  <2>1. open' = open /\ ~writer'
      BY <1>3 DEF Lock!Release
  <2> QED BY <2>1
<1>4. CASE Lock!Control
  <2>1. open' = open /\ writer' = writer
      BY <1>4 DEF Lock!Control
  <2> QED BY <2>1
<1>5. CASE UNCHANGED Lock!vars
  <2>1. open' = open /\ writer' = writer
      BY <1>5 DEF Lock!vars
  <2> QED BY <2>1
<1> QED BY <1>1, <1>2, <1>3, <1>4, <1>5 DEF Lock!Next

\* A pause holds, whichever workers, front ends and console commands are about: who pauses a
\* binary and waits until no request is open has its evidence alone until somebody resumes it.
\* (A request whose job was claimed before the pause counts as open, and may still be sent.)
THEOREM PauseHolds ==
    /\ Spec => [][NothingBegins]_vars
    /\ BatchSpec => [][NothingBegins]_allVars
<1>1. [Lock!Next]_(Lock!vars) => NothingBegins
    BY LockIsQuiet
<1>2. Spec => [][NothingBegins]_vars
    BY <1>1, QueueImplementsLock, PTL DEF LockSpec, Lock!Spec
<1>3. BatchSpec => [][NothingBegins]_allVars
    BY <1>1, BatchesImplementLock, PTL DEF LockSpec, Lock!Spec
<1> QED BY <1>2, <1>3

\* Unless the operator retries jobs or a recording adds calls, nothing below an open request
\* becomes unfinished again, be it in a batch or with a worker.
THEOREM CalleesSettledUnderBatches == BatchSpec => []CalleesStaySettled
<1>1. BatchInit => SkippedWait /\ CalleesStaySettled
    BY DEF BatchInit, Init, SkippedWait, CalleesStaySettled, Active
<1>2. ASSUME All, SkippedWait, CalleesStaySettled, [BatchNext]_allVars
      PROVE  SkippedWait' /\ CalleesStaySettled'
  <2>1. CASE Serve \/ TimePasses \/ NewProcess
      BY <1>2, <2>1, QueueSteps, SkippedStep, SettledStep DEF All
  <2>2. CASE CommandOver \/ UNCHANGED allVars
      BY <1>2, <2>2 DEF CommandOver, allVars, vars, graph, SkippedWait, Older, CalleesStaySettled
  <2>3. ASSUME NEW b \in Batches, Submit(b) \/ Attach(b) \/ Abandon(b) \/ Collect(b)
        PROVE  SkippedWait' /\ CalleesStaySettled'
    <3>1. UNCHANGED <<graph, reason>>
        BY <2>3 DEF Submit, Collect, SubmitStart, ClaimBatch, PinInBatch, RejectFromBatch, Seal,
           Upload, Post, Submitted, Attach, Abandon, CollectStart, CollectJob, CollectEnd, vars
    <3>2. SkippedWait'
      <4> SUFFICES ASSUME Decisions, Older # {}
                   PROVE  paused' /\ \A j \in Jobs : status'[j] \notin Active
          BY <3>1 DEF SkippedWait, Older
      <4>1. paused /\ \A j \in Jobs : status[j] \notin Active
          BY <1>2 DEF SkippedWait
      <4>2. ~SubmitStart(b) /\ ~ClaimBatch(b)
          BY <4>1 DEF SubmitStart, ClaimBatch
      <4>3. paused'
          BY <2>3, <4>1, <4>2 DEF Submit, Collect, PinInBatch, RejectFromBatch, Seal, Upload, Post,
             Submitted, Attach, Abandon, CollectStart, CollectJob, CollectEnd, vars
      <4>4. ASSUME NEW j \in Jobs PROVE status'[j] \notin Active
        <5>1. status[j] # "queued" \/ status'[j] \notin Active
            BY <1>2, <2>3, <4>2, OnlyBatchClaims DEF Active
        <5> QED BY <1>2, <2>3, <4>1, <5>1, ConsoleStatus DEF Claimable
      <4> QED BY <4>3, <4>4
    <3>3. CalleesStaySettled'
      <4> SUFFICES ASSUME {"retry", "publish"} \cap Operator = {},
                          NEW j \in Jobs, status'[j] \in Active,
                          NEW k \in Jobs, k[3] = j[3], <<j[1], k[1]>> \in below'
                   PROVE  status'[k] \notin Unfinished
          BY DEF CalleesStaySettled
      <4>1. <<j[1], k[1]>> \in below
          BY <3>1 DEF graph
      <4>2. status[j] \in Active \/ Claimable(j)
          BY <1>2, <2>3, ConsoleStatus
      <4>3. status[k] \notin Unfinished
          BY <1>2, <4>1, <4>2 DEF CalleesStaySettled, Claimable, Ready, CalleesDone
      <4> QED BY <1>2, <2>3, <4>3, ConsoleStatus
    <3> QED BY <3>2, <3>3
  <2> QED BY <1>2, <2>1, <2>2, <2>3 DEF BatchNext
<1> QED BY <1>1, <1>2, AllAlways, PTL DEF BatchSpec

\* The console makes no job of the propagate stage either, so every wait still explains itself.
THEOREM WaitsAreExplainedUnderBatches ==
    ASSUME IsFiniteSet(Functions), Propagating = {}
    PROVE  BatchSpec => []WaitsForTheClock
<1>1. BatchInit => NoPropagation
    BY DEF BatchInit, Init, NoPropagation, InitialJobs
<1>2. ASSUME All, NoPropagation, [BatchNext]_allVars PROVE NoPropagation'
  <2>1. CASE Serve \/ TimePasses \/ NewProcess
      BY <1>2, <2>1, QueueSteps, PropagationStep DEF All
  <2>2. CASE CommandOver \/ UNCHANGED allVars
      BY <1>2, <2>2 DEF CommandOver, allVars, vars, NoPropagation
  <2>3. ASSUME NEW b \in Batches, Submit(b) \/ Attach(b) \/ Abandon(b) \/ Collect(b)
        PROVE  NoPropagation'
      BY <1>2, <2>3, ConsoleStatus DEF NoPropagation
  <2> QED BY <1>2, <2>1, <2>2, <2>3 DEF BatchNext
<1>3. All /\ GraphStored /\ NoPropagation => WaitsForTheClock
    BY SomeJobIsReady DEF All
<1> QED BY <1>1, <1>2, <1>3, AllAlways, BatchGraphAlways, PTL DEF BatchSpec
====
