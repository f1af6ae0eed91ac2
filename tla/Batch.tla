-------------------------------- MODULE Batch --------------------------------
(***************************************************************************)
(* Asynchronous provider batches (batch.rs), composed with the job queue.  *)
(* The console commands that submit, attach, abandon and collect a batch   *)
(* run in processes of their own: the lock on the data directory keeps the *)
(* server and other commands out, and every process runs db::recover       *)
(* first.  So a batch lives through many processes, any of which may stop  *)
(* between two steps, and the server works on other jobs in between.       *)
(*                                                                         *)
(* The provider is what batch.rs relies on: it accepts a batch or does     *)
(* not, the answer to the submission may be lost, and in the end every     *)
(* accepted request has an outcome.                                        *)
(***************************************************************************)
EXTENDS Pipeline

CONSTANTS
    Batches,        \* batch ids; a bound on the batches ever submitted
    BatchSize       \* config.batch_size

ASSUME BatchAssumption ==
    /\ BatchSize \in Nat
    /\ None \notin Batches

VARIABLES
    command,        \* what this process does: [does, batch, left to claim]
    batchStatus,    \* batches.status
    remote,         \* the batches with a remote_id
    batchOf,        \* jobs.batch_id
    manifest,       \* the jobs written to each batch's file
    accepted        \* the requests the provider accepted with each batch and
                    \* whose outcome is not saved

batchVars == <<command, batchStatus, remote, batchOf, manifest, accepted>>

allVars == <<vars, batchVars>>

BatchStatuses == {"absent", "preparing", "uploading", "submitting", "submitted",
                  "collected", "abandoned"}

Doing(does) == [does |-> does, batch |-> None, left |-> 0]

BatchInit ==
    /\ Init
    /\ command = Doing("serve")
    /\ batchStatus = [b \in Batches |-> "absent"]
    /\ remote = {}
    /\ batchOf = [j \in Jobs |-> None]
    /\ manifest = [b \in Batches |-> {}]
    /\ accepted = [b \in Batches |-> {}]

-----------------------------------------------------------------------------
\* The server, or the console's run command: everything but the end of it.
Serve ==
    /\ command.does = "serve"
    /\ \/ \E w \in Workers : WorkerStep(w)
       \/ OperatorStep
       \/ WriterStep
       \/ ImportObservedCalls
       \/ Refresh
    /\ UNCHANGED batchVars

TimePasses == (\E j \in Jobs : BackoffElapses(j)) /\ UNCHANGED batchVars

NewProcess ==
    /\ Restart
    /\ command' \in {Doing("serve"), Doing("console")}
    /\ UNCHANGED <<batchStatus, remote, batchOf, manifest, accepted>>

\* The command fails, at any of its steps, or is done.
CommandOver ==
    /\ command.does \notin {"serve", "over"}
    /\ command' = Doing("over")
    /\ UNCHANGED <<vars, batchStatus, remote, batchOf, manifest, accepted>>

-----------------------------------------------------------------------------
\* submit refuses decision routing, resumes the binary and records the batch.
SubmitStart(b) ==
    /\ ~Decisions
    /\ command.does = "console"
    /\ batchStatus[b] = "absent"
    /\ paused' = FALSE
    /\ batchStatus' = [batchStatus EXCEPT ![b] = "preparing"]
    /\ command' = [does |-> "submit", batch |-> b, left |-> BatchSize]
    /\ UNCHANGED <<status, attempts, waiting, pinned, holds, sent, writer,
                   activeRun, reason, graph, lost, bounded, remote, batchOf,
                   manifest, accepted>>

InBatch(b) == {j \in Jobs : status[j] = "batched" /\ batchOf[j] = b}

\* Mutant: a batch answers all its requests, so its jobs need not wait for each other.
TogetherInBatch(j) ==
    /\ j[2] = "map" /\ status[j] = "queued" /\ j \notin waiting /\ InScope(j)
    /\ \A k \in Jobs : k[3] = j[3] /\ <<j[1], k[1]>> \in below
                        => status[k] \notin {"running", "uncertain"}

ClaimableInBatch(j) == j[2] = "map" /\ Claimable(j)

Room == command.left > 0

\* pipeline::claim_batch, once the job before is in the manifest.
ClaimBatch(b) ==
    /\ command.does = "submit" /\ command.batch = b /\ Room
    /\ InBatch(b) \subseteq manifest[b]
    /\ ~paused
    /\ ~writer
    /\ \E j \in Jobs :
        /\ ClaimableInBatch(j)
        /\ status' = [status EXCEPT ![j] = "batched"]
        /\ attempts' = [attempts EXCEPT ![j] = @ + 1]
        /\ batchOf' = [batchOf EXCEPT ![j] = b]
    /\ command' = [command EXCEPT !.left = @ - 1]
    /\ UNCHANGED <<waiting, pinned, holds, sent, paused, writer, activeRun,
                   reason, graph, lost, bounded, batchStatus, remote, manifest,
                   accepted>>

PinInBatch(b) ==
    /\ command.does = "submit" /\ command.batch = b
    /\ \E j \in InBatch(b) \ manifest[b] :
        /\ pinned' = pinned \cup {j}
        /\ manifest' = [manifest EXCEPT ![b] = @ \cup {j}]
    /\ UNCHANGED <<status, attempts, waiting, holds, sent, paused, writer,
                   activeRun, reason, graph, lost, bounded, command,
                   batchStatus, remote, batchOf, accepted>>

\* The job belongs to no batch any more.
LeavesBatch(j) == batchOf' = [batchOf EXCEPT ![j] = None]

\* fail_before_dispatch: the job has no usable prompt, or was pinned with other
\* provider settings.  It may be claimed again by the same submission.
RejectFromBatch(b) ==
    /\ command.does = "submit" /\ command.batch = b
    /\ \E j \in InBatch(b) \ manifest[b] :
        /\ status' = [status EXCEPT ![j] =
                        IF attempts[j] < MaxAttempts THEN "queued" ELSE "failed"]
        /\ pinned' \in {pinned, pinned \cup {j}}
        /\ LeavesBatch(j)
    /\ UNCHANGED <<attempts, waiting, holds, sent, paused, writer, activeRun,
                   reason, graph, lost, bounded, command, batchStatus, remote,
                   manifest, accepted>>

\* No job is left to claim, or the batch is full: pause, and write the file.
Seal(b) ==
    /\ command.does = "submit" /\ command.batch = b
    /\ InBatch(b) \subseteq manifest[b]
    /\ ~Room \/ ~\E j \in Jobs : ClaimableInBatch(j)
    /\ paused' = TRUE
    /\ LET empty == manifest[b] = {} IN
        /\ batchStatus' = [batchStatus EXCEPT ![b] =
                             IF empty THEN "abandoned" ELSE "uploading"]
        /\ command' = IF empty THEN Doing("over")
                      ELSE [does |-> "upload", batch |-> b, left |-> 0]
    /\ UNCHANGED <<status, attempts, waiting, pinned, holds, sent, writer,
                   activeRun, reason, graph, lost, bounded, remote, batchOf,
                   manifest, accepted>>

\* The file is uploaded; the intent to submit is recorded before the request.
Upload(b) ==
    /\ command.does = "upload" /\ command.batch = b
    /\ batchStatus' = [batchStatus EXCEPT ![b] = "submitting"]
    /\ command' = [command EXCEPT !.does = "post"]
    /\ UNCHANGED <<vars, remote, batchOf, manifest, accepted>>

\* The provider takes the batch.  Its answer may still be lost.
Post(b) ==
    /\ command.does = "post" /\ command.batch = b
    /\ accepted' = [accepted EXCEPT ![b] = manifest[b]]
    /\ command' = [command EXCEPT !.does = "posted"]
    /\ UNCHANGED <<vars, batchStatus, remote, batchOf, manifest>>

Submitted(b) ==
    /\ command.does = "posted" /\ command.batch = b
    /\ batchStatus' = [batchStatus EXCEPT ![b] = "submitted"]
    /\ remote' = remote \cup {b}
    /\ command' = Doing("over")
    /\ UNCHANGED <<vars, batchOf, manifest, accepted>>

-----------------------------------------------------------------------------
\* The operator found the batch at the provider.
Attach(b) ==
    /\ command.does = "console"
    /\ batchStatus[b] = "submitting" /\ b \notin remote
    /\ accepted[b] # {}
    /\ batchStatus' = [batchStatus EXCEPT ![b] = "submitted"]
    /\ remote' = remote \cup {b}
    /\ command' = Doing("over")
    /\ UNCHANGED <<vars, batchOf, manifest, accepted>>

\* Mutant: a submission without an answer needs no confirmation.
AbandonableUnconfirmed(b) ==
    b \notin remote /\ batchStatus[b] \in {"preparing", "uploading", "submitting"}

\* A submission without an answer is abandoned only by an operator who confirms
\* that the provider has no such batch, and tells the truth.
Abandonable(b) ==
    /\ b \notin remote
    /\ \/ batchStatus[b] \in {"preparing", "uploading"}
       \/ batchStatus[b] = "submitting" /\ accepted[b] = {}

Abandon(b) ==
    LET back == {j \in Jobs : batchOf[j] = b /\ status[j] \in Active} IN
    /\ command.does = "console"
    /\ Abandonable(b)
    /\ status' = [j \in Jobs |-> IF j \in back THEN "queued" ELSE status[j]]
    /\ attempts' = [j \in Jobs |-> IF j \in back /\ attempts[j] > 0
                                   THEN attempts[j] - 1 ELSE attempts[j]]
    /\ waiting' = waiting \ back
    /\ batchOf' = [j \in Jobs |-> IF j \in back THEN None ELSE batchOf[j]]
    /\ batchStatus' = [batchStatus EXCEPT ![b] = "abandoned"]
    /\ command' = Doing("over")
    /\ UNCHANGED <<pinned, holds, sent, paused, writer, activeRun, reason, graph,
                   lost, bounded, remote, manifest, accepted>>

\* collect found the batch at its end and has read the outcomes.
CollectStart(b) ==
    /\ command.does = "console"
    /\ b \in remote /\ batchStatus[b] # "collected"
    /\ command' = [does |-> "collect", batch |-> b, left |-> 0]
    /\ UNCHANGED <<vars, batchStatus, remote, batchOf, manifest, accepted>>

\* One job, one transaction (finish or fail): it is completed, its answer is
\* unusable, or it has no result and is queued again while attempts last.
CollectJob(b) ==
    /\ command.does = "collect" /\ command.batch = b
    /\ \E j \in InBatch(b), outcome \in {"completed", "failed", "queued"} :
        /\ outcome = "completed" => j \in accepted[b]
        /\ outcome = "queued" => attempts[j] < MaxAttempts
        /\ status' = [status EXCEPT ![j] = outcome]
        /\ waiting' = IF outcome = "queued" THEN waiting \cup {j} ELSE waiting
        /\ accepted' = [accepted EXCEPT ![b] = @ \ {j}]
    /\ UNCHANGED <<attempts, pinned, holds, sent, paused, writer, activeRun,
                   reason, graph, lost, bounded, command, batchStatus, remote,
                   batchOf, manifest>>

\* Mutant: the end of the batch is recorded before the outcomes.
CollectedEarly(b) == TRUE

AllCollected(b) == InBatch(b) = {}

CollectEnd(b) ==
    /\ command.does = "collect" /\ command.batch = b
    /\ AllCollected(b)
    /\ batchStatus' = [batchStatus EXCEPT ![b] = "collected"]
    /\ command' = Doing("over")
    /\ UNCHANGED <<vars, remote, batchOf, manifest, accepted>>

-----------------------------------------------------------------------------
Submit(b) == \/ SubmitStart(b) \/ ClaimBatch(b) \/ PinInBatch(b)
             \/ RejectFromBatch(b) \/ Seal(b) \/ Upload(b) \/ Post(b) \/ Submitted(b)

Collect(b) == CollectStart(b) \/ CollectJob(b) \/ CollectEnd(b)

BatchNext ==
    \/ Serve
    \/ TimePasses
    \/ NewProcess
    \/ CommandOver
    \/ \E b \in Batches : Submit(b) \/ Attach(b) \/ Abandon(b) \/ Collect(b)

BatchSpec == BatchInit /\ [][BatchNext]_allVars

-----------------------------------------------------------------------------
\* What the provider accepted and may charge for is waited for: until its outcome
\* is saved, the job stays in that batch, nobody else works on it, and the batch can
\* be collected, at the latest when the operator has attached it.
AcceptedIsAwaited ==
    \A b \in Batches : \A j \in accepted[b] :
        /\ status[j] = "batched" /\ batchOf[j] = b
        /\ batchStatus[b] \in {"submitting", "submitted"}

\* Nothing that may have been paid for is asked for again: neither what a batch holds, nor
\* a lost request of a job that left its batch before, when that batch is abandoned.
PaidOnce == AcceptedIsAwaited /\ LostIsHeldBack

\* A batched job has a way out: its batch can be collected, attached or abandoned,
\* wherever a process stopped and whatever the server did meanwhile.
BatchedHasAWayOut ==
    \A j \in Jobs : status[j] = "batched" =>
        /\ batchOf[j] \in Batches
        /\ batchStatus[batchOf[j]] \in {"preparing", "uploading", "submitting",
                                        "submitted"}

\* A job starts, with a worker or in a batch, only when nothing strictly below it in
\* its run is unfinished: a caller never shares a batch with a callee.
CalleesBeforeBatches ==
    [][\A j \in {i \in Jobs : status[i] = "queued" /\ status'[i] \in {"running", "batched"}} :
        \A k \in Jobs : k[3] = j[3] /\ <<j[1], k[1]>> \in Required
                        => status[k] \notin Unfinished
      ]_allVars
=============================================================================
