------------------------------- MODULE Pipeline -------------------------------
(***************************************************************************)
(* The durable job queue of pipeline.rs for one binary: the jobs table and *)
(* the binary's paused, recovery_writer and active_run_id columns, the     *)
(* workers that claim jobs and send provider requests, the operator's      *)
(* control actions, and the restart after a stop or a crash (db.rs).       *)
(*                                                                         *)
(* Every SQLite transaction is one step.  A worker's handler is several:   *)
(* the claim commits, the pinned prompt and the request's receipt are      *)
(* written, and the outcome is saved when the answer comes back; anything  *)
(* may happen in between.  The recovery writer of automatic.rs appears     *)
(* here as what it does to the queue: it takes the flag, may queue a       *)
(* follow-up run, and gives the flag back.                                 *)
(***************************************************************************)
EXTENDS CallGraph, Integers, FiniteSets

CONSTANTS
    Functions,      \* the functions of the binary
    Edges,          \* the call edges of its first extraction, <<caller, callee>>
    Observed,       \* calls that recordings and later extractions may add to them
    Skipped,        \* functions that an older extraction left without a job
    Codeless,       \* functions that a later extraction may find no code for
    Propagating,    \* functions with a job of the propagate stage, of old
    Runs,           \* run ids; a bound on the analysis runs ever started
    Legacy,         \* the default run id, of the jobs made by the extraction
    Workers,        \* the worker tasks (config.concurrency of them)
    Decisions,      \* whether a decision provider is configured
    Escalation,     \* whether an escalation model is configured
    MaxAttempts,    \* config.max_attempts
    AttemptCap,     \* bound on attempts, which spending limits may raise for ever
    MaxSaveErrors,  \* bound on outcomes the database fails to save
    MaxRestarts,    \* bound on restarts of the process
    Operator,       \* the control actions the operator uses
    None            \* no job, no run, no stage

ASSUME PipelineAssumption ==
    /\ Edges \cup Observed \subseteq Functions \X Functions
    /\ Skipped \cup Codeless \cup Propagating \subseteq Functions
    /\ Legacy \in Runs
    /\ {Decisions, Escalation} \subseteq BOOLEAN
    /\ MaxAttempts \in Nat \ {0}
    /\ AttemptCap \in Nat /\ AttemptCap >= MaxAttempts
    /\ {MaxSaveErrors, MaxRestarts} \subseteq Nat
    /\ Operator \subseteq {"resume", "pause", "all", "retry", "reanalyze", "scope",
                       "publish"}

Stages == {"preprocess", "map", "verify_map", "propagate", "escalate",
           "verify_escalate"}

\* UNIQUE(function_id, stage, run_id): the three columns identify a job.
Jobs == Functions \X Stages \X Runs

ASSUME NoneAssumption == None \notin Jobs \cup Runs \cup Stages

\* "absent": there is no such row.  "dropped": completed without a request or a
\* result, because the function has no code any more.
Statuses == {"absent", "queued", "running", "batched", "completed", "dropped",
             "failed", "uncertain"}

\* functions.skip_reason: none, one of those that preparation undoes ("tiny
\* function", "identical pseudocode", "thunk"), or one of the others.
Reasons == {"none", "older", "codeless"}

\* A request is, or may still be, at the provider.
Active == {"running", "batched", "uncertain"}

Unfinished == Active \cup {"queued"}

VARIABLES
    status,         \* jobs.status
    attempts,       \* jobs.attempts
    waiting,        \* the jobs whose available_at lies in the future
    pinned,         \* the jobs whose input_json is pinned
    holds,          \* the job each worker is working on
    sent,           \* the workers that have sent its request
    paused,         \* binaries.paused
    writer,         \* binaries.recovery_writer
    activeRun,      \* binaries.active_run_id, None for all runs
    reason,         \* functions.skip_reason
    edges,          \* the edges table
    below,          \* what READY's query over function_components yields
    lost,           \* history: jobs with a sent request whose outcome was lost
    saveErrors,     \* outcomes the database failed to save
    restarts        \* restarts of the process

graph == <<edges, below>>

bounded == <<saveErrors, restarts>>

vars == <<status, attempts, waiting, pinned, holds, sent, paused, writer,
          activeRun, reason, graph, lost, bounded>>

InitialJobs ==
    ((Functions \ Skipped) \X {"map"} \X {Legacy})
        \cup (Propagating \X {"propagate"} \X {Legacy})

\* As ghidra::import_export leaves the binary: paused, one map job for every
\* function it did not skip.
Init ==
    /\ status = [j \in Jobs |-> IF j \in InitialJobs THEN "queued" ELSE "absent"]
    /\ attempts = [j \in Jobs |-> 0]
    /\ waiting = {}
    /\ pinned = {}
    /\ holds = [w \in Workers |-> None]
    /\ sent = {}
    /\ paused = TRUE
    /\ writer = FALSE
    /\ activeRun = None
    /\ reason = [f \in Functions |-> IF f \in Skipped THEN "older" ELSE "none"]
    /\ edges = Edges
    /\ below = Downstream(Functions, Edges)
    /\ lost = {}
    /\ saveErrors = 0
    /\ restarts = 0

-----------------------------------------------------------------------------
InScope(j) == activeRun \in {None, j[3]}

\* Mutant: only the stages that interpret a function hold its callers back.
CalleesInterpreted(j) ==
    \A k \in Jobs : /\ k[3] = j[3] /\ k[2] \in {"map", "propagate", "escalate"}
                    /\ <<j[1], k[1]>> \in below
                    => status[k] \notin Unfinished

\* Mutant: a job of unknown outcome does not hold its callers back.
CalleesNotInFlight(j) ==
    \A k \in Jobs : k[3] = j[3] /\ <<j[1], k[1]>> \in below
                    => status[k] \notin {"queued", "running", "batched"}

\* Mutant: the jobs of every run count, not those of the job's own run alone.
CalleesDoneInEveryRun(j) ==
    \A k \in Jobs : <<j[1], k[1]>> \in below => status[k] \notin Unfinished

\* No job of the same run is unfinished anywhere strictly downstream.
CalleesDone(j) ==
    \A k \in Jobs : /\ k[3] = j[3]
                    /\ <<j[1], k[1]>> \in below
                    => status[k] \notin Unfinished

\* READY: the legacy propagate stage also waits for every map job of its run.
Ready(j) ==
    /\ j[2] = "propagate" =>
        \A k \in Jobs : k[2] = "map" /\ k[3] = j[3] => status[k] \notin Unfinished
    /\ CalleesDone(j)

\* Mutant: jobs of unknown outcome are handed out again on their own.
ClaimableIfUncertain(j) ==
    status[j] \in {"queued", "uncertain"} /\ j \notin waiting /\ InScope(j) /\ Ready(j)

Claimable(j) ==
    /\ status[j] = "queued"
    /\ j \notin waiting
    /\ InScope(j)
    /\ Ready(j)

\* Any claimable job: priority only orders ready work.
Claim(w) ==
    /\ holds[w] = None
    /\ ~paused
    /\ ~writer
    /\ \E j \in Jobs :
        /\ Claimable(j)
        /\ status' = [status EXCEPT ![j] = "running"]
        /\ attempts' = [attempts EXCEPT ![j] = @ + 1]
        /\ holds' = [holds EXCEPT ![w] = j]
    /\ UNCHANGED <<waiting, pinned, sent, paused, writer, activeRun, reason,
                   graph, lost, bounded>>

\* The worker pins the prompt, unless an attempt before did, writes the receipt
\* and sends the request.  Neither checks for a pause since the claim.  The
\* rounds of an escalate job that follow the first are the same request here.
Send(w) ==
    /\ holds[w] # None
    /\ w \notin sent
    /\ pinned' = pinned \cup {holds[w]}
    /\ sent' = sent \cup {w}
    /\ UNCHANGED <<status, attempts, waiting, holds, paused, writer, activeRun,
                   reason, graph, lost, bounded>>

\* The worker forgets its job and will look for another.
Release(w) ==
    /\ holds' = [holds EXCEPT ![w] = None]
    /\ sent' = sent \ {w}

\* Saving an outcome changes a job only while it is running or batched.
Open(j) == status[j] \in {"running", "batched"}

\* The stages a finished job may queue in its own run, in the transaction that
\* completes it: verification of an interpretation, or the route that the
\* preprocessing decision took ("defer" queues nothing).
NextStages(stage) ==
    CASE stage = "map" /\ Decisions -> {"verify_map"}
      [] stage = "escalate" /\ Decisions -> {"verify_escalate"}
      [] stage = "preprocess" ->
            {None, "map"} \cup (IF Escalation THEN {"escalate"} ELSE {})
      [] OTHER -> {None}

\* INSERT OR IGNORE: an existing job of that stage stays as it is.
Complete(w) ==
    LET j == holds[w] IN
    /\ w \in sent
    /\ \E stage \in NextStages(j[2]) :
        LET new == {k \in Jobs : /\ Open(j) /\ status[k] = "absent"
                                 /\ k = <<j[1], stage, j[3]>>}
        IN  /\ status' = [k \in Jobs |->
                            IF k = j /\ Open(j) THEN "completed"
                            ELSE IF k \in new THEN "queued" ELSE status[k]]
            /\ pinned' = pinned \cup new
    /\ Release(w)
    /\ UNCHANGED <<attempts, waiting, paused, writer, activeRun, reason,
                   graph, lost, bounded>>

\* A transport error is retried after a pause while attempts last; an unusable
\* answer or an oversized request is not; HTTP 402 keeps the job and pauses the
\* binary.  The backoff of a job that failed for good is never looked at.
Fail(w) ==
    LET j == holds[w] IN
    /\ j # None
    /\ \E error \in {"transient", "permanent", "limit"} :
        LET again == \/ error = "limit"
                     \/ error = "transient" /\ attempts[j] < MaxAttempts
        IN  /\ error = "limit" => w \in sent /\ attempts[j] < AttemptCap
            /\ status' = [status EXCEPT ![j] =
                            IF ~Open(j) THEN @
                            ELSE IF again THEN "queued" ELSE "failed"]
            /\ waiting' = waiting \cup {k \in {j} : Open(k) /\ again}
            /\ paused' = (paused \/ error = "limit")
    /\ Release(w)
    /\ UNCHANGED <<attempts, pinned, writer, activeRun, reason, graph, lost,
                   bounded>>

\* The database does not take the outcome, or the event that follows the claim: the
\* worker logs the error and moves on.
OutcomeNotSaved(w) ==
    /\ holds[w] # None
    /\ saveErrors < MaxSaveErrors
    /\ saveErrors' = saveErrors + 1
    /\ lost' = lost \cup {holds[v] : v \in sent \cap {w}}
    /\ Release(w)
    /\ UNCHANGED <<status, attempts, waiting, pinned, paused, writer,
                   activeRun, reason, graph, restarts>>

BackoffElapses(j) ==
    /\ j \in waiting
    /\ waiting' = waiting \ {j}
    /\ UNCHANGED <<status, attempts, pinned, holds, sent, paused, writer,
                   activeRun, reason, graph, lost, bounded>>

-----------------------------------------------------------------------------
\* decisions::prepare gives every function an older extraction skipped a
\* preprocess job, and turns untouched map jobs into preprocess jobs.  (A job
\* with a parent is always pinned, and one without an attempt never waits.)
Unskipped ==
    {<<f, "preprocess", Legacy>> :
        f \in {g \in Functions : /\ reason[g] = "older"
                                 /\ \A j \in Jobs : j[1] = g => status[j] = "absent"}}

Untouched ==
    {j \in Jobs : /\ j[2] = "map"
                  /\ status[j] = "queued"
                  /\ attempts[j] = 0
                  /\ j \notin pinned
                  /\ status[<<j[1], "preprocess", j[3]>>] = "absent"}

Prepare ==
    IF Decisions
    THEN LET old == Untouched
             new == Unskipped \cup {<<j[1], "preprocess", j[3]>> : j \in old}
         IN  /\ status' = [j \in Jobs |-> IF j \in old THEN "absent"
                                          ELSE IF j \in new THEN "queued"
                                          ELSE status[j]]
             /\ reason' = [f \in Functions |->
                              IF reason[f] = "older" THEN "none" ELSE reason[f]]
    ELSE UNCHANGED <<status, reason>>

\* Preparation is committed even when the binary then has to stay paused: the
\* model is not configured, or a Ghidra research writer owns the binary.
Resume ==
    /\ "resume" \in Operator
    /\ Prepare
    /\ \E allowed \in BOOLEAN : paused' = (paused /\ ~allowed)
    /\ UNCHANGED <<attempts, waiting, pinned, holds, sent, writer, activeRun,
                   graph, lost, bounded>>

Pause ==
    /\ "pause" \in Operator
    /\ paused' = TRUE
    /\ UNCHANGED <<status, attempts, waiting, pinned, holds, sent, writer,
                   activeRun, reason, graph, lost, bounded>>

AllRuns ==
    /\ "all" \in Operator
    /\ activeRun' = None
    /\ UNCHANGED <<status, attempts, waiting, pinned, holds, sent, paused,
                   writer, reason, graph, lost, bounded>>

\* recording::analyze, asked again, makes the run it started before the scope (and
\* resumes).
ScopeAgain ==
    /\ "scope" \in Operator
    /\ \E j \in Jobs : j[3] # Legacy /\ status[j] # "absent" /\ activeRun' = j[3]
    /\ UNCHANGED <<status, attempts, waiting, pinned, holds, sent, paused, writer,
                   reason, graph, lost, bounded>>

\* The operator vouches for the jobs that failed or whose outcome is unknown.
Retry ==
    LET again == {j \in Jobs : status[j] \in {"failed", "uncertain"}} IN
    /\ "retry" \in Operator
    /\ again # {}
    /\ status' = [j \in Jobs |-> IF j \in again THEN "queued" ELSE status[j]]
    /\ attempts' = [j \in Jobs |-> IF j \in again THEN 0 ELSE attempts[j]]
    /\ waiting' = waiting \ again
    /\ lost' = lost \ again
    /\ UNCHANGED <<pinned, holds, sent, paused, writer, activeRun, reason,
                   graph, bounded>>

\* Mutant: a run id may be that of an earlier run.
FreshOrReused(r) == r # Legacy

\* A new run id was never used before.
Fresh(r) == r # Legacy /\ \A j \in Jobs : j[3] = r => status[j] = "absent"

Idle(f) == \A j \in Jobs : j[1] = f => status[j] \notin Active

\* Functions S get jobs of one stage in a run of their own, which becomes the
\* scope; their prompts may be pinned at once.
StartRun(r, S, stage, pinning) ==
    LET new == {<<f, stage, r>> : f \in S} IN
    /\ Fresh(r)
    /\ S # {}
    /\ status' = [j \in Jobs |-> IF j \in new THEN "queued" ELSE status[j]]
    /\ pinned' = IF pinning THEN pinned \cup new ELSE pinned
    /\ activeRun' = r

FirstStages == {IF Decisions THEN "preprocess" ELSE "map"}
                    \cup (IF Escalation THEN {"escalate"} ELSE {})

\* knowledge::reanalyze_scope takes those of the selected functions that have no
\* open request, and pauses.  An investigation pins its prompts.
Reanalyze ==
    /\ "reanalyze" \in Operator
    /\ \E r \in Runs, S \in SUBSET {f \in Functions : Idle(f)},
          stage \in FirstStages, investigation \in BOOLEAN :
        StartRun(r, S, stage, investigation)
    /\ paused' = TRUE
    /\ UNCHANGED <<attempts, waiting, holds, sent, writer, reason, graph,
                   lost, bounded>>

-----------------------------------------------------------------------------
\* Mutant: a job of unknown outcome does not count as open.
DrainedOrUncertain ==
    \A j \in Jobs : /\ status[j] \notin {"running", "batched"}
                    /\ InScope(j) => status[j] # "queued"

\* Mutant: a job that failed for good keeps the writer out.
DrainedIfCompleted ==
    \A j \in Jobs : /\ status[j] \notin Active
                    /\ InScope(j) => status[j] \in {"absent", "completed"}

\* No request of any run is open, and the scope has no queued job left.
Drained ==
    \A j \in Jobs : /\ status[j] \notin Active
                    /\ InScope(j) => status[j] # "queued"

\* automatic::advance takes the flag.
AcquireWriter ==
    /\ ~paused
    /\ ~writer
    /\ Drained
    /\ writer' = TRUE
    /\ UNCHANGED <<status, attempts, waiting, pinned, holds, sent, paused,
                   activeRun, reason, graph, lost, bounded>>

Interpreted(f) ==
    \E j \in Jobs : /\ j[1] = f
                    /\ j[2] \in {"map", "propagate", "escalate"}
                    /\ status[j] = "completed"

\* The reanalysis phase queues pinned map jobs in a new run and makes it the
\* scope, whatever the scope has become since the writer took the flag.
FollowUp ==
    /\ writer
    /\ \E r \in Runs,
          S \in SUBSET {f \in Functions : reason[f] = "none" /\ Interpreted(f)} :
        StartRun(r, S, "map", TRUE)
    /\ UNCHANGED <<attempts, waiting, holds, sent, paused, writer, reason,
                   graph, lost, bounded>>

ReleaseWriter ==
    /\ writer
    /\ writer' = FALSE
    /\ UNCHANGED <<status, attempts, waiting, pinned, holds, sent, paused,
                   activeRun, reason, graph, lost, bounded>>

\* The binary is paused and no request is open.
Quiet == paused /\ \A j \in Jobs : status[j] \notin Active

\* Calls are only ever added, and the components are rebuilt with them; without
\* a new call they come out as they were.
AddCalls ==
    \/ UNCHANGED graph
    \/ \E calls \in (SUBSET (Observed \ edges)) \ {{}} :
        /\ edges' = edges \cup calls
        /\ below' = Downstream(Functions, edges')

\* runtime::import, in one transaction.  The Ghidra gate keeps it out while a
\* recovery phase runs.
ImportObservedCalls ==
    /\ Quiet
    /\ ~writer
    /\ AddCalls
    /\ UNCHANGED <<status, attempts, waiting, pinned, holds, sent, paused,
                   writer, activeRun, reason, lost, bounded>>

\* Mutant: whatever the status of the jobs.
DroppedAll(S) == {j \in Jobs : j[1] \in S /\ status[j] # "absent"}

\* The jobs of functions without code that no worker has claimed, of any run.
Dropped(S) == {j \in Jobs : j[1] \in S /\ status[j] = "queued"}

\* ghidra::refresh_export stores what Ghidra now has, in one transaction.  It is
\* run by a recovery phase, by a research operation on a quiet binary, and to
\* publish a recording: that one looks at neither the pause nor the requests.
Refresh ==
    /\ writer \/ Quiet \/ "publish" \in Operator
    /\ AddCalls
    /\ \E S \in SUBSET Codeless :
        /\ reason' = [f \in Functions |-> IF f \in S THEN "codeless" ELSE "none"]
        /\ status' = [j \in Jobs |-> IF j \in Dropped(S) THEN "dropped" ELSE status[j]]
    /\ UNCHANGED <<attempts, waiting, pinned, holds, sent, paused, writer,
                   activeRun, lost, bounded>>

\* The process ends, at any point, and the next one runs db::recover before
\* anything else: running jobs are of unknown outcome and their binary pauses.
Restart ==
    /\ restarts < MaxRestarts
    /\ restarts' = restarts + 1
    /\ status' = [j \in Jobs |-> IF status[j] = "running" THEN "uncertain"
                                                          ELSE status[j]]
    /\ paused' = (paused \/ \E j \in Jobs : status'[j] = "uncertain")
    /\ writer' = FALSE
    /\ holds' = [w \in Workers |-> None]
    /\ sent' = {}
    /\ lost' = lost \cup {holds[w] : w \in sent}
    /\ UNCHANGED <<attempts, waiting, pinned, activeRun, reason, graph,
                   saveErrors>>

-----------------------------------------------------------------------------
WorkerStep(w) ==
    Claim(w) \/ Send(w) \/ Complete(w) \/ Fail(w) \/ OutcomeNotSaved(w)

OperatorStep == Resume \/ Pause \/ AllRuns \/ ScopeAgain \/ Retry \/ Reanalyze

WriterStep == AcquireWriter \/ FollowUp \/ ReleaseWriter

Next ==
    \/ \E w \in Workers : WorkerStep(w)
    \/ \E j \in Jobs : BackoffElapses(j)
    \/ OperatorStep
    \/ WriterStep
    \/ ImportObservedCalls
    \/ Refresh
    \/ Restart

Spec == Init /\ [][Next]_vars

\* Idle workers poll the queue every second, every request is answered or times
\* out, time passes, advance is tried every two seconds, and it gives the flag back
\* whatever its phase did.
Fairness ==
    /\ \A w \in Workers : /\ WF_vars(Claim(w))
                          /\ WF_vars(Send(w))
                          /\ WF_vars(Complete(w) \/ Fail(w))
    /\ \A j \in Jobs : WF_vars(BackoffElapses(j))
    /\ WF_vars(AcquireWriter)
    /\ WF_vars(ReleaseWriter)

FairSpec == Spec /\ Fairness

-----------------------------------------------------------------------------
InState(s) == \E j \in Jobs : InScope(j) /\ status[j] = s

\* What pipeline::run_state reports of the scope.
RunState ==
    IF InState("running") \/ \E j \in Jobs : Claimable(j) THEN "Work"
    ELSE IF InState("batched") THEN "BatchBlocked"
    ELSE IF InState("uncertain") THEN "DependencyBlocked"
    ELSE IF InState("queued") THEN "Waiting"
    ELSE "Complete"

-----------------------------------------------------------------------------
TypeOK ==
    /\ status \in [Jobs -> Statuses]
    /\ attempts \in [Jobs -> Nat]
    /\ waiting \subseteq Jobs
    /\ pinned \subseteq Jobs
    /\ holds \in [Workers -> Jobs \cup {None}]
    /\ sent \subseteq {w \in Workers : holds[w] # None}
    /\ paused \in BOOLEAN
    /\ writer \in BOOLEAN
    /\ activeRun \in Runs \cup {None}
    /\ reason \in [Functions -> Reasons]
    /\ edges \subseteq Functions \X Functions
    /\ below \subseteq Functions \X Functions
    /\ lost \subseteq Jobs
    /\ saveErrors \in Nat
    /\ restarts \in Nat

\* The job a worker's handler works on stays running, and that worker's alone,
\* until the handler is through: whatever the operator, the other workers and
\* the recovery writer do meanwhile, no outcome is saved for a job that has
\* been handed out again.
OneWorkerPerJob ==
    \A w \in Workers : holds[w] # None =>
        /\ status[holds[w]] = "running"
        /\ \A v \in Workers : holds[v] = holds[w] => v = w

\* A running job has a worker, unless an outcome could not be saved: nothing
\* else strands a job before the next restart.
RunningIsHeld ==
    saveErrors = 0 =>
        \A j \in Jobs : status[j] = "running" => \E w \in Workers : holds[w] = j

\* A request whose outcome was lost may have been paid for.  Its job is kept
\* from every worker, across restarts, resumes, new scopes and recovery passes,
\* until the operator asks for it again.
LostIsHeldBack ==
    \A j \in lost : /\ status[j] \in {"running", "uncertain"}
                    /\ \A w \in Workers : holds[w] # j

\* While the recovery writer has the flag no request is open, in the scope or
\* in any other run, so none is answered against evidence that is changing.
WriterAlone ==
    writer => /\ \A j \in Jobs : status[j] \notin Active
              /\ \A w \in Workers : holds[w] = None

\* What a request was told about the functions below it stays settled while the
\* request is open: unless the operator retries or publishes a recording, nothing
\* downstream of an open job becomes unfinished again in its run, by whatever
\* stage follows another, new scope, recovery pass, refresh or restart.
CalleesStaySettled ==
    {"retry", "publish"} \cap Operator = {} =>
        \A j \in {i \in Jobs : status[i] \in Active} :
            \A k \in Jobs :
                k[3] = j[3] /\ <<j[1], k[1]>> \in below => status[k] \notin Unfinished

\* The jobs that a step hands to a worker.
Started == {j \in Jobs : status[j] = "queued" /\ status'[j] = "running"}

Required == StrictlyBelow(Functions, edges)

\* "A caller cannot begin reasoning while a required callee component has
\* queued, running, batched, or uncertain work" (scheduling.md), with the
\* required callees read off the call graph and not off the component ids.
CalleesFirst ==
    [][\A j \in Started : \A k \in Jobs :
        k[3] = j[3] /\ <<j[1], k[1]>> \in Required => status[k] \notin Unfinished
      ]_vars

\* The jobs that interpret a function, and the job that verifies what one of them found.
Interpretations == {j \in Jobs : j[2] \in {"map", "escalate"}}
Verification(j) == <<j[1], IF j[2] = "map" THEN "verify_map" ELSE "verify_escalate", j[3]>>

\* "Verification and escalation belong to the same component lifecycle": when
\* decisions are configured, a caller starts only after every interpretation
\* below it in its run, by the first model or by escalation, has been through its
\* own verification (unless its function lost its code meanwhile), even if the
\* operator retried stages of it out of order.
VerifiedBeforeCallers ==
    [][Decisions =>
        \A j \in Started : \A k \in Interpretations :
            k[3] = j[3] /\ <<j[1], k[1]>> \in Required /\ status[k] = "completed"
            => status[Verification(k)] \in {"completed", "dropped", "failed"}
      ]_vars

\* "The scheduler rebuilds components while [...] no jobs are active"
\* (scheduling.md): the graph a request was scheduled by, and its callees were
\* read from, is not replaced while the request is open, by whichever path new
\* calls arrive.
GraphFixedForRequests ==
    [][graph' # graph => \A j \in Jobs : status[j] \notin Active]_vars

\* Requests and the recovery writer share the evidence as readers and a writer.
Lock == INSTANCE EvidenceLock WITH
    Requests <- Jobs,
    readers <- {j \in Jobs : status[j] \in Active},
    writing <- writer,
    held <- paused

LockSpec == Lock!Spec

\* A wait explains itself ("must not produce an infinite wait without an explanation",
\* scheduling.md): when run_state reports neither work nor a reason to stop, only a backoff
\* stands in the way of some job of the scope.  Whatever calls form a recursion and whatever
\* other runs do, the scope's jobs never all wait for each other.
WaitsForTheClock ==
    RunState = "Waiting" => \E j \in waiting : InScope(j) /\ status[j] = "queued" /\ Ready(j)

\* Unless it is paused, the scope keeps being worked on until it is complete or
\* what stands in its way is reported: recursion, backoff, bounded retries and
\* the recovery writer never leave it waiting for ever.
QueueDrains ==
    []<>(paused \/ RunState \in {"BatchBlocked", "DependencyBlocked", "Complete"})

\* "After the active queue drains, recovery claims the binary's writer flag"
\* (automatic-recovery.md), whichever scopes are chosen and started meanwhile.  It does
\* not while a request of another run has an unknown outcome: run_state looks at the scope
\* alone, advance at every run, and nobody reports the wait.
DrainedBinaryRecovers ==
    (RunState = "Complete") ~> (writer \/ paused \/ \E j \in Jobs : status[j] = "uncertain")
=============================================================================
