------------------------------- MODULE Recovery -------------------------------
(***************************************************************************)
(* The automatic recovery cycle (automatic.rs, recovery.rs, parameters.rs, *)
(* with the operations of knowledge.rs, types.rs and ghidra.rs it runs).   *)
(* Once the requests of the scope have drained, a worker takes the writer  *)
(* flag of the binary and runs one phase of the cycle of that scope:       *)
(*                                                                         *)
(*   assessing -> names -> types -> refreshing -> reanalysis               *)
(*       ^                                            |                    *)
(*       +--- the next pass, a run of its own --------+--> ended           *)
(*                                                                         *)
(* A phase is a sequence of awaits.  Each step below is what is committed  *)
(* between two of them; between any two, people review and correct, choose *)
(* other scopes, pause and retry, a step fails, or the process stops.      *)
(*                                                                         *)
(* A result is <<f, n>>, the n-th of its function; verdicts on its name    *)
(* and its summary are one verdict.  Every function here is worth a        *)
(* parameter trial.  "ended" stands for completed and for deferred, which  *)
(* differ in a count that is reported.                                     *)
(***************************************************************************)
EXTENDS Naturals, FiniteSets, SequencesExt

CONSTANTS
    Functions,
    MaxPasses,      \* automatic_recovery.max_passes
    MaxAttempts,    \* failures of one phase that end the cycle: 3 in the code
    MaxResults,     \* a bound on the results of a function
    MaxRuns,        \* a bound on the runs besides the first one
    MaxCrashes,     \* a bound on the restarts
    MaxActs,        \* a bound on what the operator does
    Acts            \* of "pause", "retry", "scope", "review", "correct"

ASSUME RecoveryAssumption ==
    /\ IsFiniteSet(Functions)
    /\ MaxPasses \in Nat \ {0} /\ MaxAttempts \in Nat \ {0}
    /\ MaxResults \in Nat /\ MaxRuns \in Nat
    /\ MaxCrashes \in Nat /\ MaxActs \in Nat

VARIABLES
    paused, active,     \* binaries.paused, binaries.active_run_id
    writer,             \* binaries.recovery_writer
    runs,               \* the runs made so far
    job,                \* the status of the job of a run and function
    current,            \* functions.current_result_id: the number of the result
    made,               \* the results of each function, numbered
    taken,              \* results a person wrote or decided on
    revision,           \* results.revision
    stale,              \* results.stale
    accepted,           \* functions whose current result is accepted
    types,              \* automation_json of their current results: the outcome of the
                        \* types, "" before the result is assessed...
    marked,             \* ...and whether the name is audited as applied
    text,               \* functions.name: the result it comes from
    cycle,              \* automatic_recovery, by scope
    ops,                \* apply_operations and type_operations
    unexported,         \* functions changed in the Ghidra project since its export
    news,               \* functions whose exported evidence differs from their prompt's
    handler,            \* the running phase, in memory
    crashes, acts       \* restarts and acts of the operator so far

queue == <<paused, active, runs, job>>
results == <<current, made, taken, revision, stale, accepted>>
audit == <<types, marked>>
native == <<text, unexported, news>>
counts == <<crashes, acts>>
vars == <<queue, writer, results, audit, cycle, ops, native, handler, counts>>

Scopes == 0 .. MaxRuns + 1
All == 0
Results == Functions \X (1 .. MaxResults)

Live == {"assessing", "names", "types", "refreshing", "reanalysis"}

Ended == {"ended", "failed"}

None == 0

Row(id, phase, pass) ==
    [id |-> id, phase |-> phase, pass |-> pass, attempts |-> 0,
     names |-> None, types |-> None, proposals |-> {},
     trials |-> [f \in Functions |-> "none"]]

Absent == Row(0, "absent", 0)

Idle == [at |-> "idle", scope |-> All, op |-> None, proposals |-> {}, todo |-> {},
         changed |-> FALSE]

Over == [Idle EXCEPT !.at = "done"]

Init ==
    /\ paused = FALSE /\ active = All /\ writer = FALSE /\ runs = 0
    /\ job = [k \in Scopes \X Functions |-> IF k[1] = All THEN "queued" ELSE "none"]
    /\ current = [f \in Functions |-> 0] /\ made = current /\ text = current
    /\ taken = {} /\ stale = {} /\ accepted = {} /\ marked = {}
    /\ revision = [r \in Results |-> 0]
    /\ types = [f \in Functions |-> ""]
    /\ cycle = [s \in Scopes |-> Absent]
    /\ ops = <<>>
    /\ unexported = {} /\ news = {}
    /\ handler = Idle
    /\ crashes = 0 /\ acts = 0

-----------------------------------------------------------------------------
Cur(f) == <<f, current[f]>>

Answered == {f \in Functions : current[f] # 0}

InScope(s) == active \in {All, s}

NothingOpen == \A s \in Scopes, f \in Functions : job[<<s, f>>] \notin {"open", "uncertain"}

\* No request of any scope is open, and none of this scope waits.
Drained ==
    /\ NothingOpen
    /\ \A s \in Scopes, f \in Functions : InScope(s) => job[<<s, f>>] # "queued"

Ask(s, f) ==
    /\ ~paused /\ ~writer
    /\ job[<<s, f>>] = "queued" /\ InScope(s)
    /\ job' = [job EXCEPT ![<<s, f>>] = "open"]
    /\ UNCHANGED <<paused, active, runs, writer, results, audit, cycle, ops, native,
                   handler, counts>>

\* A new current result, that nothing is audited of.
Replace(f) ==
    /\ made' = [made EXCEPT ![f] = @ + 1]
    /\ current' = [current EXCEPT ![f] = made[f] + 1]
    /\ types' = [types EXCEPT ![f] = ""]
    /\ marked' = marked \ {f}

\* pipeline::finish.  A result that a person wrote or decided on stays the current one.
Answer(s, f) ==
    /\ job[<<s, f>>] = "open" /\ made[f] < MaxResults
    /\ IF Cur(f) \in taken THEN UNCHANGED <<made, current, audit, accepted, news>>
       ELSE /\ Replace(f)
            /\ accepted' = accepted \ {f}
            /\ news' = news \ {f}
    /\ job' = [job EXCEPT ![<<s, f>>] = "done"]
    /\ UNCHANGED <<paused, active, runs, writer, taken, revision, stale,
                   cycle, ops, text, unexported, handler, counts>>

JobFails(s, f) ==
    /\ job[<<s, f>>] = "open"
    /\ job' = [job EXCEPT ![<<s, f>>] = "failed"]
    /\ UNCHANGED <<paused, active, runs, writer, results, audit, cycle, ops, native,
                   handler, counts>>

Ends(s, f) == Answer(s, f) \/ JobFails(s, f)

-----------------------------------------------------------------------------
\* The worker of automatic::work, or the loop of recovery::run.
Claim ==
    /\ ~paused /\ ~writer /\ Drained
    /\ writer' = TRUE
    /\ handler' = [Idle EXCEPT !.at = "claimed"]
    /\ UNCHANGED <<queue, results, audit, cycle, ops, native, counts>>

\* Functions whose current result is a model's, and that nobody decided on.
Open == {f \in Answered : Cur(f) \notin taken}

\* advance_locked reads which scope is active, and its cycle, which it makes at first.
Enter ==
    LET row == IF cycle[active].phase # "absent" THEN cycle[active]
               ELSE Row(runs, "assessing", 0)
    IN  /\ handler.at = "claimed"
        /\ cycle' = [cycle EXCEPT ![active] = row]
        /\ handler' = [Idle EXCEPT !.at = IF row.phase \in Ended THEN "done" ELSE row.phase,
                                   !.scope = active,
                                   !.proposals = row.proposals,
                                   !.todo = IF row.phase \in {"refreshing", "reanalysis"}
                                                THEN Open ELSE {}]
        /\ UNCHANGED <<queue, writer, results, audit, ops, native, counts>>

\* advance gives the flag back, whatever the outcome.
Release ==
    /\ handler.at = "done"
    /\ writer' = FALSE
    /\ handler' = Idle
    /\ UNCHANGED <<queue, results, audit, cycle, ops, native, counts>>

Mine == cycle[handler.scope]

At(where) == handler.at = where

SetMine(row) == cycle' = [cycle EXCEPT ![handler.scope] = row]

\* set_phase.  The trials of a phase that is over are not looked at again.
Proceed(phase) ==
    /\ SetMine([Mine EXCEPT !.phase = phase, !.attempts = 0,
                            !.trials = [f \in Functions |-> "none"]])
    /\ handler' = Over

SetOp(o, status) == ops' = [ops EXCEPT ![o].status = status]

\* The operations once a phase is broken off.  A writeback that was begun has an unknown
\* outcome; a preview that its cycle does not know is not looked at again.
BrokenOff ==
    IF At("keep names") \/ At("keep types") THEN Front(ops)
    ELSE [o \in DOMAIN ops |-> IF ops[o].status = "applying"
                THEN [ops[o] EXCEPT !.status = "uncertain"] ELSE ops[o]]

\* Mutant: the failures of a phase are not counted.
UncountedFailure == Mine

CountedFailure ==
    [Mine EXCEPT !.attempts = @ + 1,
                 !.phase = IF Mine.attempts + 1 >= MaxAttempts THEN "failed" ELSE @]

\* Any step of a phase may fail.
PhaseFails ==
    /\ handler.at \notin {"idle", "claimed", "done"}
    /\ SetMine(CountedFailure)
    /\ ops' = BrokenOff
    /\ handler' = Over
    /\ UNCHANGED <<queue, writer, results, audit, native, counts>>

-----------------------------------------------------------------------------
Unassessed == {f \in Open : types[f] = ""}

\* assess: one row after the other; what is stale is deferred.
AssessRow ==
    /\ At("assessing")
    /\ \E f \in Unassessed :
        /\ \/ accepted' = accepted \cup {f} /\ Cur(f) \notin stale
           \/ UNCHANGED accepted
        /\ \E outcome \in {"validated", "deferred"} :
            /\ outcome = "validated" => Cur(f) \notin stale
            /\ types' = [types EXCEPT ![f] = outcome]
    /\ UNCHANGED <<queue, writer, current, made, taken, revision, stale, marked, cycle,
                   ops, native, handler, counts>>

Validated == {Cur(f) : f \in {g \in Answered : Cur(g) \notin stale /\ types[g] = "validated"}}

\* type_outcome.
Outcome(rs, outcome) ==
    types' = [f \in Functions |-> IF f \in Answered /\ Cur(f) \in rs THEN outcome ELSE types[f]]

\* The validated plans, of an earlier attempt too; those in conflict are deferred.
AssessDone ==
    /\ At("assessing") /\ Unassessed = {}
    /\ \E kept \in SUBSET Validated :
        /\ Outcome(Validated \ kept, "deferred")
        /\ SetMine([Mine EXCEPT !.phase = "names", !.proposals = kept])
    /\ handler' = Over
    /\ UNCHANGED <<queue, writer, results, marked, ops, native, counts>>

-----------------------------------------------------------------------------
Item(r) == [result |-> r, revision |-> revision[r]]

Operation(kind, status, rs) ==
    [kind |-> kind, status |-> status, items |-> {Item(r) : r \in rs},
     saved |-> FALSE, written |-> {}, begun |-> <<>>]

\* Once a pass is over its operations are not looked at again.
Forgotten == [kind |-> "none", status |-> "applied", items |-> {},
              saved |-> FALSE, written |-> {}, begun |-> <<>>]

Forget ==
    ops' = [o \in DOMAIN ops |-> IF o \in {Mine.names, Mine.types} THEN Forgotten ELSE ops[o]]

Previewed(op) == ops' = Append(ops, op)

\* preview_apply: the accepted texts that Ghidra does not have.
NamesPreview ==
    /\ At("names") /\ Mine.names = None
    /\ Previewed(Operation("names", "preview",
            {Cur(f) : f \in {g \in accepted : Cur(g) \notin stale /\ text[g] # current[g]}}))
    /\ handler' = [handler EXCEPT !.at = "keep names", !.op = Len(ops) + 1]
    /\ UNCHANGED <<queue, writer, results, audit, cycle, native, counts>>

\* Mutant: the change set is not stored with the cycle.
NamesForget ==
    /\ At("keep names")
    /\ SetMine(Mine)
    /\ handler' = [handler EXCEPT !.at = "apply names"]
    /\ UNCHANGED <<queue, writer, results, audit, ops, native, counts>>

NamesKeep ==
    /\ At("keep names")
    /\ SetMine([Mine EXCEPT !.names = handler.op])
    /\ handler' = [handler EXCEPT !.at = "apply names"]
    /\ UNCHANGED <<queue, writer, results, audit, ops, native, counts>>

NamesAgain ==
    /\ At("names") /\ Mine.names # None
    /\ handler' = [handler EXCEPT !.at = "apply names", !.op = Mine.names]
    /\ UNCHANGED <<queue, writer, results, audit, cycle, ops, native, counts>>

Unresolved == {o \in DOMAIN ops : ops[o].status \in {"applying", "uncertain"}}

\* Mutant: what a person decided since the preview is not looked at.
AsSomebodySaw(o) == TRUE

AsPreviewed(o) ==
    \A i \in ops[o].items : revision[i.result] = i.revision /\ i.result \notin stale

Pass == <<handler.scope, Mine.id>>

Begin(o) == ops' = [ops EXCEPT ![o].status = "applying", ![o].begun = Pass]

\* execute_apply.
NamesBegin ==
    LET o == handler.op
    IN  /\ At("apply names")
        /\ ops[o].items # {} /\ ops[o].status \in {"preview", "uncertain"}
        /\ Unresolved \subseteq {o} /\ AsPreviewed(o)
        /\ Begin(o)
        /\ handler' = [handler EXCEPT !.at = "save names"]
        /\ UNCHANGED <<queue, writer, results, audit, cycle, native, counts>>

FunctionsOf(rs) == {r[1] : r \in rs}

\* PistonApply saves those of the items that find what they expect.
SavesNames(o) ==
    \E written \in SUBSET {i.result : i \in ops[o].items} :
        /\ ops' = [ops EXCEPT ![o].saved = TRUE, ![o].written = written]
        /\ unexported' = unexported \cup FunctionsOf(written)

NamesSave ==
    /\ At("save names")
    /\ IF ops[handler.op].saved THEN UNCHANGED <<ops, unexported>>
                                ELSE SavesNames(handler.op)
    /\ handler' = [handler EXCEPT !.at = "record names"]
    /\ UNCHANGED <<queue, writer, results, audit, cycle, text, news, counts>>

NamesRecord ==
    LET op == ops[handler.op]
    IN  /\ At("record names")
        /\ text' = [f \in Functions |-> IF f \in FunctionsOf(op.written)
                        THEN (CHOOSE r \in op.written : r[1] = f)[2] ELSE text[f]]
        /\ SetOp(handler.op, IF op.written = {i.result : i \in op.items}
                                THEN "applied" ELSE "conflict")
        /\ handler' = [handler EXCEPT !.at = "apply names"]
        /\ UNCHANGED <<queue, writer, results, audit, cycle, unexported, news, counts>>

\* Nothing to write, or nothing left to write.
NamesDone ==
    /\ At("apply names")
    /\ \/ ops[handler.op].items = {}
       \/ ops[handler.op].status \notin {"preview", "uncertain"}
    /\ Proceed("types")
    /\ UNCHANGED <<queue, writer, results, audit, ops, native, counts>>

-----------------------------------------------------------------------------
IsCurrent(r) == current[r[1]] = r[2] /\ r \notin stale

TypesNothing ==
    /\ At("types") /\ Mine.proposals = {}
    /\ Proceed("refreshing")
    /\ UNCHANGED <<queue, writer, results, audit, ops, native, counts>>

TypesAgain ==
    /\ At("types") /\ Mine.proposals # {} /\ Mine.types # None
    /\ handler' = [handler EXCEPT !.at = "apply types", !.op = Mine.types]
    /\ UNCHANGED <<queue, writer, results, audit, cycle, ops, native, counts>>

Previewing == /\ Mine.types = None /\ handler.proposals # {}
              /\ At("types") \/ At("types without locals")

\* preview_many: the plan is tried in Ghidra and rolled back.
TypesPreview ==
    /\ Previewing /\ \A r \in handler.proposals : IsCurrent(r)
    /\ \E status \in {"preview", "unchanged"} :
            Previewed(Operation("types", status, handler.proposals))
    /\ handler' = [handler EXCEPT !.at = "keep types", !.op = Len(ops) + 1]
    /\ UNCHANGED <<queue, writer, results, audit, cycle, native, counts>>

\* Mutant: the proposals keep the outcome of their assessment.
Undecided(rs) == UNCHANGED types

Deferring(rs) == Outcome(rs, "deferred")

\* preview_types gives up: every proposal is deferred.
TypesRefused ==
    /\ Previewing \/ At("isolate")
    /\ Deferring(IF At("isolate") THEN Mine.proposals ELSE handler.proposals)
    /\ handler' = [handler EXCEPT !.at = "types decided"]
    /\ UNCHANGED <<queue, writer, results, marked, cycle, ops, native, counts>>

\* The local variables of the proposals changed: plans left empty are deferred...
LocalsDropped ==
    /\ At("types") /\ Previewing
    /\ \E emptied \in SUBSET handler.proposals :
        /\ Deferring(emptied)
        /\ handler' = [handler EXCEPT !.at = "keep without locals",
                                      !.proposals = @ \ emptied]
    /\ UNCHANGED <<queue, writer, results, marked, cycle, ops, native, counts>>

\* ...and the others are stored and tried once more.
LocalsKeep ==
    /\ At("keep without locals")
    /\ SetMine([Mine EXCEPT !.proposals = handler.proposals])
    /\ handler' = [handler EXCEPT !.at = IF handler.proposals = {} THEN "types decided"
                                         ELSE "types without locals"]
    /\ UNCHANGED <<queue, writer, results, audit, ops, native, counts>>

\* isolate_type_conflicts: Ghidra rejects the plans together, and then some of them...
IsolateReject ==
    /\ \/ At("types") /\ Previewing
       \/ At("isolate")
    /\ \E r \in handler.proposals :
        /\ Deferring({r})
        /\ handler' = [handler EXCEPT !.at = "isolate", !.proposals = @ \ {r}]
    /\ UNCHANGED <<queue, writer, results, marked, cycle, ops, native, counts>>

\* ...and takes those that are left.
IsolateAccept ==
    /\ At("isolate") /\ \A r \in handler.proposals : IsCurrent(r)
    /\ IF handler.proposals = {} THEN UNCHANGED ops
       ELSE Previewed(Operation("types", "preview", handler.proposals))
    /\ SetMine([Mine EXCEPT !.proposals = handler.proposals])
    /\ handler' = [handler EXCEPT
            !.at = IF handler.proposals = {} THEN "types decided" ELSE "keep types",
            !.op = IF handler.proposals = {} THEN @ ELSE Len(ops) + 1]
    /\ UNCHANGED <<queue, writer, results, audit, native, counts>>

TypesKeep ==
    /\ At("keep types")
    /\ SetMine([Mine EXCEPT !.types = handler.op])
    /\ handler' = [handler EXCEPT !.at = "apply types"]
    /\ UNCHANGED <<queue, writer, results, audit, ops, native, counts>>

\* types::apply.
TypesBegin ==
    LET o == handler.op
    IN  /\ At("apply types") /\ ops[o].status \in {"preview", "uncertain"}
        /\ ops[o].status = "preview" =>
            /\ AsPreviewed(o)
            /\ \A i \in ops[o].items : IsCurrent(i.result)
        /\ Unresolved \subseteq {o} /\ NothingOpen
        /\ Begin(o)
        /\ handler' = [handler EXCEPT !.at = "save types"]
        /\ UNCHANGED <<queue, writer, results, audit, cycle, native, counts>>

\* PistonTypes saves the whole plan or nothing.
SavesTypes(o) ==
    /\ ops' = [ops EXCEPT ![o].saved = TRUE]
    /\ unexported' = unexported \cup FunctionsOf({i.result : i \in ops[o].items})

TypesSave ==
    /\ At("save types")
    /\ IF ops[handler.op].saved THEN UNCHANGED <<ops, unexported>>
                                ELSE SavesTypes(handler.op)
    /\ handler' = [handler EXCEPT !.at = "export types"]
    /\ UNCHANGED <<queue, writer, results, audit, cycle, text, news, counts>>

\* Ghidra saves what a phase that was broken off had asked of it, perhaps while a retry is
\* on its way there.
LateSave(o) ==
    /\ o \in Unresolved /\ ~ops[o].saved
    /\ \/ ops[o].kind = "names" /\ SavesNames(o)
       \/ ops[o].kind = "types" /\ SavesTypes(o)
    /\ UNCHANGED <<queue, writer, results, audit, cycle, text, news, handler, counts>>

\* ghidra::refresh: any evidence may turn out to have changed, and what is concluded
\* from it is stale.
Export ==
    /\ unexported' = {}
    /\ \E S \in SUBSET Functions :
        /\ news' = news \cup S
        /\ stale' = stale \cup {Cur(f) : f \in S \cap Answered}

TypesExport ==
    /\ At("export types")
    /\ Export
    /\ SetOp(handler.op, "applied")
    /\ handler' = [handler EXCEPT !.at = "apply types"]
    /\ UNCHANGED <<queue, writer, current, made, taken, revision, accepted, audit, cycle,
                   text, counts>>

\* type_outcome of every proposal.
TypesOutcome ==
    LET status == ops[handler.op].status
    IN  /\ At("apply types") /\ status \in {"applied", "unchanged"}
        /\ Outcome(Mine.proposals, status)
        /\ handler' = [handler EXCEPT !.at = "types decided"]
        /\ UNCHANGED <<queue, writer, results, marked, cycle, ops, native, counts>>

TypesDone ==
    /\ At("types decided")
    /\ Proceed("refreshing")
    /\ UNCHANGED <<queue, writer, results, audit, ops, native, counts>>

-----------------------------------------------------------------------------
\* parameters::recover: a function's trial is saved with its marker...
TrialSave(f) ==
    /\ At("refreshing") /\ f \in handler.todo /\ Mine.trials[f] = "none"
    /\ \E outcome \in {"saved same", "saved changed"} :
        /\ SetMine([Mine EXCEPT !.trials[f] = outcome])
        /\ unexported' = IF outcome = "saved changed" THEN unexported \cup {f} ELSE unexported
    /\ UNCHANGED <<queue, writer, results, audit, ops, text, news, handler, counts>>

\* Mutant: a trial completed by an earlier attempt counts for nothing.
ChangedNow(f) == Mine.trials[f] = "saved changed"

Changed(f) == Mine.trials[f] \in {"saved changed", "changed"}

\* ...and recorded; one that is recorded is not repeated.
TrialRecord(f) ==
    /\ At("refreshing") /\ f \in handler.todo /\ Mine.trials[f] # "none"
    /\ SetMine([Mine EXCEPT !.trials[f] = IF Changed(f) THEN "changed" ELSE "same"])
    /\ handler' = [handler EXCEPT !.todo = @ \ {f}, !.changed = @ \/ Changed(f)]
    /\ UNCHANGED <<queue, writer, results, audit, ops, native, counts>>

\* Mutant: every name of the change set, also one in conflict.
PreviewedNames == IF Mine.names = None THEN {} ELSE {i.result : i \in ops[Mine.names].items}

WrittenNames == IF Mine.names = None THEN {} ELSE ops[Mine.names].written

NamesChanged == WrittenNames # {}

TypesExported == Mine.types # None /\ ops[Mine.types].status = "applied"

NeedsExport == handler.changed \/ (NamesChanged /\ ~TypesExported)

RefreshExport ==
    /\ At("refreshing") /\ handler.todo = {} /\ NeedsExport
    /\ Export
    /\ handler' = [handler EXCEPT !.at = "mark"]
    /\ UNCHANGED <<queue, writer, current, made, taken, revision, accepted, audit, cycle,
                   ops, text, counts>>

RefreshNothing ==
    /\ At("refreshing") /\ handler.todo = {} /\ ~NeedsExport
    /\ handler' = [handler EXCEPT !.at = "mark"]
    /\ UNCHANGED <<queue, writer, results, audit, cycle, ops, native, counts>>

Mark ==
    /\ At("mark")
    /\ marked' = marked \cup {f \in Answered : Cur(f) \in WrittenNames}
    /\ Proceed("reanalysis")
    /\ UNCHANGED <<queue, writer, results, types, ops, native, counts>>

-----------------------------------------------------------------------------
\* Functions with changed evidence, or for which the model asked for more that exists.
Select ==
    /\ At("reanalysis")
    /\ \E asked \in SUBSET handler.todo :
        handler' = [handler EXCEPT !.at = "selected",
            !.todo = IF Mine.pass + 1 < MaxPasses /\ runs < MaxRuns
                        THEN (handler.todo \cap news) \cup asked ELSE {}]
    /\ UNCHANGED <<queue, writer, results, audit, cycle, ops, native, counts>>

\* The next pass: a run with a job for each of them becomes the scope.
FollowUp ==
    /\ At("selected") /\ handler.todo # {}
    /\ runs' = runs + 1
    /\ job' = [k \in DOMAIN job |->
                IF k[1] = runs' /\ k[2] \in handler.todo THEN "queued" ELSE job[k]]
    /\ active' = runs'
    /\ cycle' = [cycle EXCEPT ![runs'] = Row(runs', "assessing", Mine.pass + 1),
                              ![handler.scope] = Absent]
    /\ handler' = Over
    /\ Forget
    /\ UNCHANGED <<paused, writer, results, audit, native, counts>>

Finish ==
    /\ At("selected") /\ handler.todo = {}
    /\ Proceed("ended")
    /\ Forget
    /\ UNCHANGED <<queue, writer, results, audit, native, counts>>

-----------------------------------------------------------------------------
Act(name) == name \in Acts /\ acts < MaxActs /\ acts' = acts + 1

\* pipeline::control.
Control ==
    /\ \/ Act("pause") /\ paused' = ~paused /\ UNCHANGED <<active, runs, job>>
       \/ /\ Act("all") /\ active # All
          /\ active' = All /\ UNCHANGED <<paused, runs, job>>
       \/ /\ Act("retry")
          /\ job' = [k \in DOMAIN job |-> IF job[k] \in {"failed", "uncertain"}
                                            THEN "queued" ELSE job[k]]
          /\ UNCHANGED <<paused, active, runs>>
    /\ UNCHANGED <<writer, results, audit, cycle, ops, native, handler, crashes>>

\* knowledge::reanalyze_scope makes a run of these functions and pauses.
ChooseScope ==
    /\ Act("scope") /\ runs < MaxRuns
    /\ runs' = runs + 1 /\ active' = runs' /\ paused' = TRUE
    /\ \E S \in (SUBSET Functions) \ {{}} :
        job' = [k \in DOMAIN job |-> IF k[1] = runs' /\ k[2] \in S THEN "queued" ELSE job[k]]
    /\ UNCHANGED <<writer, results, audit, cycle, ops, native, handler, crashes>>

\* The results in an unresolved change set are protected.
Held(r) == \E o \in Unresolved : ops[o].kind = "names" /\ \E i \in ops[o].items : i.result = r

Revise(r) == ~Held(r) /\ revision[r] = 0 /\ revision' = [revision EXCEPT ![r] = 1]

\* knowledge::review of a current result; a rejection makes others stale.
Review(f) ==
    /\ Act("review") /\ f \in Answered /\ Cur(f) \notin stale /\ Revise(Cur(f))
    /\ taken' = taken \cup {Cur(f)}
    /\ \/ accepted' = accepted \cup {f} /\ UNCHANGED stale
       \/ /\ accepted' = accepted \ {f}
          /\ \E S \in SUBSET (Answered \ {f}) : stale' = stale \cup {Cur(g) : g \in S}
    /\ UNCHANGED <<queue, writer, current, made, audit, cycle, ops, native, handler, crashes>>

\* knowledge::correct: a person's result takes the place of the current one.
Correct(f) ==
    /\ Act("correct") /\ f \in Answered /\ made[f] < MaxResults /\ Revise(Cur(f))
    /\ Replace(f)
    /\ taken' = taken \cup {<<f, made[f] + 1>>}
    /\ accepted' = accepted \cup {f}
    /\ \E S \in SUBSET (Answered \ {f}) : stale' = stale \cup {Cur(g) : g \in S}
    /\ UNCHANGED <<queue, writer, cycle, ops, native, handler, crashes>>

\* Mutant: a restart leaves the writer flag set.
WriterAfterRestart == writer

WriterFreed == FALSE

\* The process stops, and Db::recover cleans up when it starts again.
Restart ==
    /\ crashes < MaxCrashes /\ crashes' = crashes + 1
    /\ writer' = WriterFreed /\ handler' = Idle
    /\ job' = [k \in DOMAIN job |-> IF job[k] = "open" THEN "uncertain" ELSE job[k]]
    /\ paused' = (paused \/ \E k \in DOMAIN job : job'[k] = "uncertain")
    /\ ops' = BrokenOff
    /\ UNCHANGED <<active, runs, results, audit, cycle, native, acts>>

-----------------------------------------------------------------------------
Names == NamesPreview \/ NamesKeep \/ NamesAgain \/ NamesBegin \/ NamesSave
            \/ NamesRecord \/ NamesDone

TypePlans == \/ TypesNothing \/ TypesAgain \/ TypesPreview \/ TypesRefused
             \/ LocalsDropped \/ LocalsKeep \/ IsolateReject \/ IsolateAccept
             \/ TypesKeep \/ TypesBegin \/ TypesSave \/ TypesExport
             \/ TypesOutcome \/ TypesDone

Refreshing == \/ \E f \in Functions : TrialSave(f) \/ TrialRecord(f)
              \/ RefreshExport \/ RefreshNothing \/ Mark

PhaseStep == \/ Enter \/ Release
             \/ AssessRow \/ AssessDone
             \/ Names \/ TypePlans \/ Refreshing
             \/ Select \/ FollowUp \/ Finish

Requests == \E s \in Scopes, f \in Functions : Ask(s, f) \/ Ends(s, f)

People == \/ Control \/ ChooseScope
          \/ \E f \in Functions : Review(f) \/ Correct(f)

Ghidra == \E o \in DOMAIN ops : LateSave(o)

Next == Requests \/ Claim \/ PhaseStep \/ PhaseFails \/ Ghidra \/ People \/ Restart

\* The workers claim what they may, requests end, and a phase that runs goes on.
Fairness ==
    /\ WF_vars(Claim \/ PhaseStep \/ PhaseFails)
    /\ \A s \in Scopes, f \in Functions : WF_vars(Ask(s, f) \/ Ends(s, f))

Spec == Init /\ [][Next]_vars /\ Fairness

-----------------------------------------------------------------------------
RecoveryTypeOK ==
    /\ paused \in BOOLEAN /\ writer \in BOOLEAN
    /\ active \in 0 .. runs /\ runs \in Scopes
    /\ job \in [Scopes \X Functions ->
                    {"none", "queued", "open", "done", "failed", "uncertain"}]
    /\ \A f \in Functions : current[f] \in 0 .. made[f] /\ made[f] \in 0 .. MaxResults
    /\ taken \subseteq Results /\ stale \subseteq Results
    /\ accepted \subseteq Answered /\ marked \subseteq Answered
    /\ revision \in [Results -> {0, 1}]
    /\ types \in [Functions -> {"", "validated", "deferred", "applied", "unchanged"}]
    /\ \A s \in Scopes : /\ cycle[s].phase \in Live \cup Ended \cup {"absent"}
                         /\ cycle[s].pass < MaxPasses /\ cycle[s].attempts < MaxAttempts + 1
                         /\ {cycle[s].names, cycle[s].types} \subseteq 0 .. Len(ops)
                         /\ cycle[s].proposals \subseteq Results
    /\ unexported \subseteq Functions /\ news \subseteq Functions
    /\ handler.op \in 0 .. Len(ops)
    /\ writer <=> handler.at # "idle"

\* "Interrupted writeback reconciles the exact saved operation before continuing": an
\* operation with an open outcome is the one that its cycle takes up again, unless the
\* cycle has failed, and names and types of a pass are each written by one operation,
\* however often the pass is interrupted or tried again.
OneWritebackPerPass ==
    /\ \A o \in Unresolved : \E s \in Scopes :
        \/ ops[o].kind = "names" /\ cycle[s].names = o /\ cycle[s].phase \in {"names", "failed"}
        \/ ops[o].kind = "types" /\ cycle[s].types = o /\ cycle[s].phase \in {"types", "failed"}
    /\ \A o, p \in DOMAIN ops :
        ops[o].begun # <<>> /\ ops[o].begun = ops[p].begun /\ ops[o].kind = ops[p].kind
            => o = p

\* Each pass concludes what became of every type plan it took up.
ProposalsAreDecided ==
    \A s \in Scopes : cycle[s].phase \in {"refreshing", "reanalysis", "ended"} =>
        \A r \in cycle[s].proposals :
            r = Cur(r[1]) => types[r[1]] \in {"deferred", "applied", "unchanged"}

\* What is audited as applied was saved in the Ghidra project.
AuditIsTrue ==
    [][\A f \in Functions :
        /\ f \in marked' \ marked =>
            \E o \in DOMAIN ops : ops[o].saved /\ Cur(f) \in ops[o].written
        /\ types'[f] = "applied" /\ types[f] # "applied" =>
            \E o \in DOMAIN ops : /\ ops[o].kind = "types" /\ ops[o].saved
                                  /\ \E i \in ops[o].items : i.result = Cur(f)]_vars

\* "A fresh export then supplies the next recovery pass with the changed evidence": what
\* was changed in Ghidra and is not exported when a pass is decided belongs to functions
\* that a person took over meanwhile, or to the unfinished cycle of another scope.
FreshEvidence ==
    At("reanalysis") => \A f \in unexported :
        \/ Cur(f) \in taken
        \/ \E s \in Scopes \ {handler.scope} :
                cycle[s].phase \in {"names", "types", "refreshing", "failed"}

\* A name that a person rejected or replaced is not written after that.
DecisionsPreventWrites ==
    [][\A o \in DOMAIN ops \cap DOMAIN ops' :
        ops[o].kind = "names" /\ ops'[o].saved /\ ~ops[o].saved =>
            \A i \in ops[o].items : revision[i.result] = i.revision]_vars

\* The cycle of the active scope comes to its end, or is stopped: by a pause, by another
\* scope whose cycle is not under way, or by a request whose outcome is unknown.
RecoveryEnds ==
    []<>(\/ cycle[active].phase \notin Live
         \/ paused
         \/ \E k \in DOMAIN job : job[k] = "uncertain")
=============================================================================
